---- MODULE Spec2Model ----
(***************************************************************************)
(* A model of the scor library: Scor objects (range, toValue, weight) with *)
(* their forValue / forItem closures, and the updaters built on scor().    *)
(*                                                                         *)
(* JavaScript values are records [t, n, d]: t is the kind ("number",       *)
(* "NaN", "Infinity", "-Infinity", "null", "undefined") and n/d the        *)
(* reduced fraction of a finite number (d > 0).  Arithmetic is exact.      *)
(***************************************************************************)
EXTENDS Integers, Sequences, FiniteSets, TLC

\* ------------------------------------------------------------------ bounds
MaxNum == 2
\* the longest item list given to getItemRange / scorForItems
MaxItems == 3
\* the most entries of a list or dict of weights or of Scors
MaxWeights == 3

\* ---------------------------------------------------------- JS value model
Abs(i) == IF i < 0 THEN 0 - i ELSE i

RECURSIVE Gcd(_, _)
Gcd(a, b) == IF b = 0 THEN a ELSE Gcd(b, a % b)

\* a finite number n/d, reduced, with a positive denominator
Frac(n, d) ==
    LET s == IF d < 0 THEN 0 - 1 ELSE 1
        g == Gcd(Abs(n), Abs(d))
    IN  [t |-> "number", n |-> (s * n) \div g, d |-> (s * d) \div g]

Num(i) == [t |-> "number", n |-> i, d |-> 1]
NaN == [t |-> "NaN", n |-> 0, d |-> 1]
PosInfinity == [t |-> "Infinity", n |-> 0, d |-> 1]
NegInfinity == [t |-> "-Infinity", n |-> 0, d |-> 1]
Null == [t |-> "null", n |-> 0, d |-> 1]
Undefined == [t |-> "undefined", n |-> 0, d |-> 1]

NotNumeric == {NaN, Null, NegInfinity, PosInfinity}
Nums == {Num(i) : i \in (0 - 1)..MaxNum}
Values == Nums \cup NotNumeric \cup {Undefined}

\* typeof x === "number"
TypeofNumber(x) == x.t \in {"number", "NaN", "Infinity", "-Infinity"}

\* the operand conversion of the relational operators: null is 0, undefined is NaN
ToNumber(x) ==
    IF x.t = "null" THEN Num(0) ELSE IF x.t = "undefined" THEN NaN ELSE x

\* a < b of JavaScript
Lt(a, b) ==
    LET x == ToNumber(a)
        y == ToNumber(b)
    IN  IF x.t = "NaN" \/ y.t = "NaN" THEN FALSE
        ELSE IF x.t = "Infinity" \/ y.t = "-Infinity" THEN FALSE
        ELSE IF x.t = "-Infinity" \/ y.t = "Infinity" THEN TRUE
        ELSE x.n * y.d < y.n * x.d

\* a <= b of JavaScript
Le(a, b) ==
    LET x == ToNumber(a)
        y == ToNumber(b)
    IN  IF x.t = "NaN" \/ y.t = "NaN" THEN FALSE
        ELSE IF x.t = "-Infinity" \/ y.t = "Infinity" THEN TRUE
        ELSE IF x.t = "Infinity" \/ y.t = "-Infinity" THEN FALSE
        ELSE x.n * y.d <= y.n * x.d

Gt(a, b) == Lt(b, a)
Ge(a, b) == Le(b, a)

\* a + b, a - b, a / b and a * b on finite numbers (b # 0 for the division)
Add(a, b) == Frac(a.n * b.d + b.n * a.d, a.d * b.d)
Sub(a, b) == Frac(a.n * b.d - b.n * a.d, a.d * b.d)
Div(a, b) == Frac(a.n * b.d, a.d * b.n)
Mul(a, b) == Frac(a.n * b.n, a.d * b.d)

\* a + b, a * b and a / b of JavaScript for operands that are finite numbers,
\* NaN, null or undefined (no infinite operand and no division by 0 arises)
Plus(a, b) ==
    LET x == ToNumber(a)
        y == ToNumber(b)
    IN  IF x.t = "number" /\ y.t = "number" THEN Add(x, y) ELSE NaN
Times(a, b) ==
    LET x == ToNumber(a)
        y == ToNumber(b)
    IN  IF x.t = "number" /\ y.t = "number" THEN Mul(x, y) ELSE NaN
Over(a, b) ==
    LET x == ToNumber(a)
        y == ToNumber(b)
    IN  IF x.t = "number" /\ y.t = "number" /\ y.n # 0 THEN Div(x, y) ELSE NaN

\* isNaN(x): what an earlier scor() used where it now uses isNumeric
isNaN(x) == ToNumber(x).t = "NaN"
isNumericNaNOnly(x) == ~isNaN(x)

isNumeric(x) == TypeofNumber(x) /\ Lt(NegInfinity, x) /\ Lt(x, PosInfinity)

\* ------------------------------------------------------------- extractors
\* Items are objects { p: value }; an item is identified with its p.
Items == {Num(0 - 1), Num(0), Num(MaxNum), NaN}

\* the p of the items of a list whose range is taken: those of Items and the
\* values that are not numeric
RangeItems == Items \cup NotNumeric \cup {Undefined}

\* toValue functions a caller may pass: (item) => item.p, getZero, a function
\* that throws, and one that returns item.p unless it is NaN, when it throws
ToValues == {"toP", "getZero", "toThrow", "toPOrThrow"}
ToValueOpts == ToValues \cup {"undefined"}

getZero == Num(0)

THROWN == [class |-> "Error", msg |-> "thrown by toValue"]

\* toValue(item): the value it returns, or that it threw
Apply(tv, item) ==
    [threw |-> tv = "toThrow" \/ (tv = "toPOrThrow" /\ item = NaN),
     val |-> IF tv \in {"toP", "toPOrThrow"} THEN item
             ELSE IF tv = "getZero" THEN getZero ELSE Undefined]

\* ------------------------------------------------------------- outcomes
\* What a call ends in: a number, a new Scor (by its index), or a thrown error
NoError == [class |-> "", msg |-> ""]
Returned(v) == [kind |-> "number", val |-> v, ref |-> 0, err |-> NoError]
Created(r) == [kind |-> "Scor", val |-> Undefined, ref |-> r, err |-> NoError]
Threw(e) == [kind |-> "throw", val |-> Undefined, ref |-> 0, err |-> e]
None == [kind |-> "none", val |-> Undefined, ref |-> 0, err |-> NoError]

INVALID_RANGE == [class |-> "RangeError", msg |-> "Invalid range"]
MISSING_TO_VALUE == [class |-> "TypeError", msg |-> "Missing toValue"]
READ_ONLY == [class |-> "TypeError", msg |-> "Cannot assign to read only property"]
NO_WEIGHT == [class |-> "TypeError", msg |-> "Expected at least one weight."]
NO_ELEMENT ==
    [class |-> "TypeError", msg |-> "Expected at least one element in scores."]
MISSING_KEY ==
    [class |-> "TypeError",
     msg |-> "Expected same keys scores and weights, but missing key"]
INVALID_SCORES ==
    [class |-> "TypeError",
     msg |-> "Expected all scores to have toValue, numeric min and max."]
LENGTH_MISMATCH ==
    [class |-> "TypeError", msg |-> "Expected scores and weights to have same length."]
NOT_NUMERIC_WEIGHTS ==
    [class |-> "RangeError", msg |-> "Expected all weights to be numeric."]

\* ------------------------------------------------------------ Scor objects
\* The { min, max, toValue, weight } argument of scor()
Options(min, max, toValue, weight) ==
    [min |-> min, max |-> max, toValue |-> toValue, weight |-> weight]

\* The frozen object scor() returns: the four stored fields, the identity of
\* its forItem / forValue functions, and the variables those closures captured.
ScorObject(common, forItemFn, forValueFn) ==
    [min |-> common.min, max |-> common.max,
     toValue |-> common.toValue, weight |-> common.weight,
     forItem |-> forItemFn, forValue |-> forValueFn,
     cmin |-> common.min, cmax |-> common.max, ctoValue |-> common.toValue,
     frozen |-> FALSE]

\* an object left as it is
freezeNot(obj) == obj

\* Object.freeze(obj)
freeze(obj) == [obj EXCEPT !.frozen = TRUE]

NoObject == ScorObject(Options(Undefined, Undefined, "undefined", Undefined),
                       "none", "none")

Ok(obj) == [ok |-> TRUE, err |-> NoError, obj |-> obj]
Fail(e) == [ok |-> FALSE, err |-> e, obj |-> NoObject]

\* the checks of min and max alone
invalidOptionNoWeight(o) ==
    \/ o.min # Undefined /\ ~isNumeric(o.min)
    \/ o.max # Undefined /\ ~isNumeric(o.max)

\* the option values scor() rejects before it looks at the range
invalidOption(o) ==
    \/ o.min # Undefined /\ ~isNumeric(o.min)
    \/ o.max # Undefined /\ ~isNumeric(o.max)
    \/ o.weight # Undefined /\ (~isNumeric(o.weight) \/ Lt(o.weight, Num(0)))

\* scor() without the branch for min === max
scorNoEmptyRange(o) ==
    IF invalidOption(o) THEN Fail(INVALID_RANGE)
    ELSE IF o.min = Undefined \/ o.max = Undefined
        THEN Ok(freeze(ScorObject(o, "forValueNotAllowed", "forValueNotAllowed")))
    ELSE IF Gt(o.min, o.max) THEN Fail(INVALID_RANGE)
    ELSE Ok(freeze(ScorObject(o,
                              IF o.toValue # "undefined"
                                  THEN "forItem" ELSE "missingToValue",
                              "forValue")))

\* scor() that looks for toValue before it looks for the range
scorToValueFirst(o) ==
    IF invalidOption(o) THEN Fail(INVALID_RANGE)
    ELSE IF o.min = Undefined \/ o.max = Undefined
        THEN Ok(freeze(ScorObject(o,
                                  IF o.toValue # "undefined"
                                      THEN "forValueNotAllowed" ELSE "missingToValue",
                                  "forValueNotAllowed")))
    ELSE IF Gt(o.min, o.max) THEN Fail(INVALID_RANGE)
    ELSE IF o.min = o.max THEN Ok(freeze(ScorObject(o, "getZero", "getZero")))
    ELSE Ok(freeze(ScorObject(o,
                              IF o.toValue # "undefined"
                                  THEN "forItem" ELSE "missingToValue",
                              "forValue")))

\* scor() without the check of min > max
scorNoOrder(o) ==
    IF invalidOption(o) THEN Fail(INVALID_RANGE)
    ELSE IF o.min = Undefined \/ o.max = Undefined
        THEN Ok(freeze(ScorObject(o, "forValueNotAllowed", "forValueNotAllowed")))
    ELSE IF o.min = o.max THEN Ok(freeze(ScorObject(o, "getZero", "getZero")))
    ELSE Ok(freeze(ScorObject(o,
                              IF o.toValue # "undefined"
                                  THEN "forItem" ELSE "missingToValue",
                              "forValue")))

\* scor({ min, max, toValue, weight }): the new frozen Scor, or the error thrown
scor(o) ==
    IF invalidOption(o) THEN Fail(INVALID_RANGE)
    ELSE IF o.min = Undefined \/ o.max = Undefined
        THEN Ok(freeze(ScorObject(o, "forValueNotAllowed", "forValueNotAllowed")))
    ELSE IF Gt(o.min, o.max) THEN Fail(INVALID_RANGE)
    ELSE IF o.min = o.max THEN Ok(freeze(ScorObject(o, "getZero", "getZero")))
    ELSE Ok(freeze(ScorObject(o,
                              IF o.toValue # "undefined"
                                  THEN "forItem" ELSE "missingToValue",
                              "forValue")))

\* forValue with isNaN in the place of isNumeric
forValueClosureNaN(min, max, value) ==
    IF Le(value, min) \/ isNaN(value) THEN Num(0)
    ELSE IF Ge(value, max) THEN Num(1)
    ELSE Div(Sub(value, min), Sub(max, min))

\* the closure forValue of a Scor with a range: min, max are its captured variables
forValueClosure(min, max, value) ==
    IF Le(value, min) \/ ~isNumeric(value) THEN Num(0)
    ELSE IF Ge(value, max) THEN Num(1)
    ELSE Div(Sub(value, min), Sub(max, min))

\* s.forValue(value): the outcome of the call
forValue(s, value) ==
    IF s.forValue = "forValueNotAllowed" THEN Threw(INVALID_RANGE)
    ELSE IF s.forValue = "getZero" THEN Returned(getZero)
    ELSE Returned(forValueClosure(s.cmin, s.cmax, value))

\* forItem that hands the item itself to forValue
forItemNoExtract(s, item) ==
    IF s.forItem = "forValueNotAllowed"
        THEN [out |-> Threw(INVALID_RANGE), calls |-> 0]
    ELSE IF s.forItem = "getZero" THEN [out |-> Returned(getZero), calls |-> 0]
    ELSE IF s.forItem = "missingToValue"
        THEN [out |-> Threw(MISSING_TO_VALUE), calls |-> 0]
    ELSE [out |-> Returned(forValueClosure(s.cmin, s.cmax, item)), calls |-> 0]

\* s.forItem(item): the outcome of the call and how often it invoked toValue
forItem(s, item) ==
    IF s.forItem = "forValueNotAllowed"
        THEN [out |-> Threw(INVALID_RANGE), calls |-> 0]
    ELSE IF s.forItem = "getZero" THEN [out |-> Returned(getZero), calls |-> 0]
    ELSE IF s.forItem = "missingToValue"
        THEN [out |-> Threw(MISSING_TO_VALUE), calls |-> 0]
    ELSE LET v == Apply(s.ctoValue, item)
         IN  [out |-> IF v.threw THEN Threw(THROWN)
                      ELSE Returned(forValueClosure(s.cmin, s.cmax, v.val)),
              calls |-> 1]

\* score[field] = v in strict mode
assign(obj, field, v) ==
    IF obj.frozen THEN [ok |-> FALSE, err |-> READ_ONLY, obj |-> obj]
    ELSE [ok |-> TRUE, err |-> NoError, obj |-> [obj EXCEPT ![field] = v]]

\* x + 1, as in score.min++
Inc(x) == IF x.t = "number" THEN Frac(x.n + x.d, x.d) ELSE NaN

\* ---------------------------------------------------------------- updaters
\* setMin that does not pass the weight on
setMinNoWeight(s, min) == scor(Options(min, s.max, s.toValue, Undefined))
\* setMin that takes a falsy min for a missing one (min || undefined)
setMinFalsy(s, min) ==
    scor(Options(IF min \in {Num(0), NaN, Null} THEN Undefined ELSE min,
                 s.max, s.toValue, s.weight))

\* setMax that checks max alone, not against the min of the Scor
setMaxAlone(s, max) == scor(Options(Undefined, max, s.toValue, s.weight))

setMin(s, min) == scor(Options(min, s.max, s.toValue, s.weight))
setMax(s, max) == scor(Options(s.min, max, s.toValue, s.weight))
\* setRange in two steps, the first of them checked against the old max
setRangeInSteps(s, min, max) ==
    LET m == setMin(s, min)
    IN  IF m.ok THEN setMax(m.obj, max) ELSE m

setRange(s, min, max) == scor(Options(min, max, s.toValue, s.weight))
setToValue(s, toValue) == scor(Options(s.min, s.max, toValue, s.weight))
setWeight(s, weight) == scor(Options(s.min, s.max, s.toValue, weight))

\* ------------------------------------------------------- ranges from items
\* items.map(toValue): the values in the order of the items, how often toValue
\* was invoked, and whether it threw (which ends the loop)
RECURSIVE mapToValue(_, _)
mapToValue(toValue, items) ==
    IF items = << >> THEN [threw |-> FALSE, values |-> << >>, calls |-> 0]
    ELSE LET x == Apply(toValue, Head(items))
         IN  IF x.threw THEN [threw |-> TRUE, values |-> << >>, calls |-> 1]
             ELSE LET r == mapToValue(toValue, Tail(items))
                  IN  [threw |-> r.threw,
                       values |-> IF r.threw THEN << >> ELSE <<x.val>> \o r.values,
                       calls |-> r.calls + 1]

\* Math.min(...values) and Math.max(...values) on a non-empty list of numbers
RECURSIVE MathMin(_)
MathMin(values) ==
    IF Len(values) = 1 THEN values[1]
    ELSE LET m == MathMin(Tail(values))
         IN  IF Lt(Head(values), m) THEN Head(values) ELSE m

RECURSIVE MathMax(_)
MathMax(values) ==
    IF Len(values) = 1 THEN values[1]
    ELSE LET m == MathMax(Tail(values))
         IN  IF Gt(Head(values), m) THEN Head(values) ELSE m

NoRange == << >>

\* getItemRange that takes every value typeof "number" for numeric
getItemRangeNoFilter(toValue, items) ==
    LET m == mapToValue(toValue, items)
        values == SelectSeq(m.values, TypeofNumber)
    IN  IF m.threw
            THEN [ok |-> FALSE, err |-> THROWN, range |-> NoRange, calls |-> m.calls]
        ELSE IF Len(values) = 0
            THEN [ok |-> FALSE, err |-> INVALID_RANGE, range |-> NoRange,
                  calls |-> m.calls]
        ELSE [ok |-> TRUE, err |-> NoError,
              range |-> <<MathMin(values), MathMax(values)>>, calls |-> m.calls]

\* getItemRange that returns [0, 0] when no value is numeric
getItemRangeZero(toValue, items) ==
    LET m == mapToValue(toValue, items)
        values == SelectSeq(m.values, isNumeric)
    IN  IF m.threw
            THEN [ok |-> FALSE, err |-> THROWN, range |-> NoRange, calls |-> m.calls]
        ELSE IF Len(values) = 0
            THEN [ok |-> TRUE, err |-> NoError, range |-> <<Num(0), Num(0)>>,
                  calls |-> m.calls]
        ELSE [ok |-> TRUE, err |-> NoError,
              range |-> <<MathMin(values), MathMax(values)>>, calls |-> m.calls]

\* getItemRange that takes an item for which toValue throws as having no value
getItemRangeCatch(toValue, items) ==
    LET values == SelectSeq([i \in 1..Len(items) |->
                                 IF Apply(toValue, items[i]).threw THEN Undefined
                                 ELSE Apply(toValue, items[i]).val], isNumeric)
    IN  IF Len(values) = 0
            THEN [ok |-> FALSE, err |-> INVALID_RANGE, range |-> NoRange,
                  calls |-> Len(items)]
        ELSE [ok |-> TRUE, err |-> NoError,
              range |-> <<MathMin(values), MathMax(values)>>, calls |-> Len(items)]

\* getItemRange(toValue, items): the pair [min, max], or the error thrown, and
\* how often toValue was invoked
getItemRange(toValue, items) ==
    LET m == mapToValue(toValue, items)
        values == SelectSeq(m.values, isNumeric)
    IN  IF m.threw
            THEN [ok |-> FALSE, err |-> THROWN, range |-> NoRange, calls |-> m.calls]
        ELSE IF Len(values) = 0
            THEN [ok |-> FALSE, err |-> INVALID_RANGE, range |-> NoRange,
                  calls |-> m.calls]
        ELSE [ok |-> TRUE, err |-> NoError,
              range |-> <<MathMin(values), MathMax(values)>>, calls |-> m.calls]

\* scorForItems that takes the range from the first and the last item
scorForItemsEnds(toValue, items) ==
    LET r == getItemRange(toValue, items)
    IN  IF ~r.ok THEN [ok |-> FALSE, err |-> r.err, obj |-> NoObject, calls |-> r.calls]
        ELSE LET v == SelectSeq(mapToValue(toValue, items).values, isNumeric)
                 res == scor(Options(v[1], v[Len(v)], toValue, Undefined))
             IN  [ok |-> res.ok, err |-> res.err, obj |-> res.obj, calls |-> r.calls]

\* scorForItems(toValue, items): scor() on the range of the items
\* scorForItems that does not pass toValue on to scor
scorForItemsNoToValue(toValue, items) ==
    LET r == getItemRange(toValue, items)
    IN  IF ~r.ok THEN [ok |-> FALSE, err |-> r.err, obj |-> NoObject, calls |-> r.calls]
        ELSE LET res == scor(Options(r.range[1], r.range[2], "undefined", Undefined))
             IN  [ok |-> res.ok, err |-> res.err, obj |-> res.obj, calls |-> r.calls]

scorForItems(toValue, items) ==
    LET r == getItemRange(toValue, items)
    IN  IF ~r.ok THEN [ok |-> FALSE, err |-> r.err, obj |-> NoObject, calls |-> r.calls]
        ELSE LET res == scor(Options(r.range[1], r.range[2], toValue, Undefined))
             IN  [ok |-> res.ok, err |-> res.err, obj |-> res.obj, calls |-> r.calls]

\* ----------------------------------------------------------------- weights
\* A list or a dict: its entries in the order of Object.entries.  The keys of
\* a list are its indices.
Entry(key, val) == [key |-> key, val |-> val]
Container(kind, entries) == [kind |-> kind, entries |-> entries]
NoContainer == Container("undefined", << >>)

IndexKeys == <<"0", "1", "2", "3", "4", "5", "6", "7", "8", "9">>
List(values) ==
    Container("array", [i \in 1..Len(values) |-> Entry(IndexKeys[i], values[i])])
Dict(keys, values) ==
    Container("object", [i \in 1..Len(values) |-> Entry(keys[i], values[i])])

isArray(c) == c.kind = "array"
\* Object.values(c), Object.keys(c), Object.fromEntries(entries)
ObjectValues(c) == [i \in 1..Len(c.entries) |-> c.entries[i].val]
ObjectKeys(c) == [i \in 1..Len(c.entries) |-> c.entries[i].key]
fromEntries(entries) == Container("object", entries)

\* sumAndCountWeights without the check of the weight
sumAndCountWeightsNoCheck(acc, weight) ==
    IF isNumeric(weight)
        THEN [acc EXCEPT !.numericSum = Add(acc.numericSum, weight)]
        ELSE [acc EXCEPT !.undefinedWeights = acc.undefinedWeights + 1]

\* the reducer sumAndCountWeights on [numericSum, undefinedWeights]; threw
\* says that it threw its RangeError
sumAndCountWeights(acc, weight) ==
    IF weight # Undefined /\ (~isNumeric(weight) \/ Lt(weight, Num(0)))
        THEN [acc EXCEPT !.threw = TRUE]
    ELSE IF isNumeric(weight)
        THEN [acc EXCEPT !.numericSum = Add(acc.numericSum, weight)]
    ELSE [acc EXCEPT !.undefinedWeights = acc.undefinedWeights + 1]

\* weights.reduce(sumAndCountWeights, acc), which ends where the reducer throws
RECURSIVE reduceWeights(_, _)
reduceWeights(weights, acc) ==
    IF weights = << >> \/ acc.threw THEN acc
    ELSE reduceWeights(Tail(weights), sumAndCountWeights(acc, Head(weights)))

ZeroZero == [threw |-> FALSE, numericSum |-> Num(0), undefinedWeights |-> 0]

\* assertWeights without the check of the sum
assertWeightsAnySum(weights) ==
    IF Len(weights) = 0 THEN [threw |-> TRUE, err |-> NO_WEIGHT, all |-> FALSE]
    ELSE LET r == reduceWeights(weights, ZeroZero)
         IN  IF r.threw THEN [threw |-> TRUE, err |-> INVALID_RANGE, all |-> FALSE]
             ELSE [threw |-> FALSE, err |-> NoError, all |-> r.undefinedWeights = 0]

\* assertWeights that takes the empty list as a list of defined weights
assertWeightsEmpty(weights) ==
    LET r == reduceWeights(weights, ZeroZero)
    IN  IF r.threw THEN [threw |-> TRUE, err |-> INVALID_RANGE, all |-> FALSE]
        ELSE IF r.undefinedWeights = 0
            THEN IF r.numericSum = Num(0) /\ Len(weights) > 0
                     THEN [threw |-> TRUE, err |-> INVALID_RANGE, all |-> FALSE]
                     ELSE [threw |-> FALSE, err |-> NoError, all |-> TRUE]
        ELSE [threw |-> FALSE, err |-> NoError, all |-> FALSE]

\* assertWeights(weights): the error it throws, or whether all weights are defined
assertWeights(weights) ==
    IF Len(weights) = 0 THEN [threw |-> TRUE, err |-> NO_WEIGHT, all |-> FALSE]
    ELSE LET r == reduceWeights(weights, ZeroZero)
         IN  IF r.threw THEN [threw |-> TRUE, err |-> INVALID_RANGE, all |-> FALSE]
             ELSE IF r.undefinedWeights = 0
                 THEN IF r.numericSum = Num(0)
                          THEN [threw |-> TRUE, err |-> INVALID_RANGE, all |-> FALSE]
                          ELSE [threw |-> FALSE, err |-> NoError, all |-> TRUE]
             ELSE [threw |-> FALSE, err |-> NoError, all |-> FALSE]

\* What distributeWeights ends in: the error thrown, the input container
\* itself (same), or a new container
Distributed(ok, err, same, out) == [ok |-> ok, err |-> err, same |-> same, out |-> out]
NoDistributed == Distributed(FALSE, NoError, FALSE, NoContainer)

\* the share without the check of what remains: negative when the defined
\* weights sum to more than 1
perUndefinedWeightNegative(numericSum, undefinedWeights) ==
    Div(Sub(Num(1), numericSum), Num(undefinedWeights))

\* the undefined weights share what the defined ones leave of 1
perUndefinedWeight(numericSum, undefinedWeights) ==
    LET remaining == Sub(Num(1), numericSum)
    IN  IF Gt(remaining, Num(0)) THEN Div(remaining, Num(undefinedWeights))
        ELSE Num(0)

\* distributeWeights that scales the defined weights to the sum 1
distributeWeightsScaled(c) ==
    LET weights == ObjectValues(c)
        a == assertWeights(weights)
        r == reduceWeights(weights, ZeroZero)
    IN  IF a.threw THEN Distributed(FALSE, a.err, FALSE, NoContainer)
        ELSE IF a.all
            THEN Distributed(TRUE, NoError, FALSE,
                     Container(c.kind,
                         [i \in 1..Len(c.entries) |->
                             Entry(c.entries[i].key,
                                   Div(c.entries[i].val, r.numericSum))]))
        ELSE LET per == perUndefinedWeight(r.numericSum, r.undefinedWeights)
             IN  Distributed(TRUE, NoError, FALSE,
                     Container(c.kind,
                         [i \in 1..Len(c.entries) |->
                             Entry(c.entries[i].key,
                                   IF isNumeric(c.entries[i].val)
                                       THEN c.entries[i].val ELSE per)]))

\* distributeWeights that gives every undefined weight all that remains of 1
distributeWeightsAll(c) ==
    LET weights == ObjectValues(c)
        a == assertWeights(weights)
    IN  IF a.threw THEN Distributed(FALSE, a.err, FALSE, NoContainer)
        ELSE IF a.all THEN Distributed(TRUE, NoError, TRUE, c)
        ELSE LET r == reduceWeights(weights, ZeroZero)
                 per == perUndefinedWeight(r.numericSum, 1)
             IN  Distributed(TRUE, NoError, FALSE,
                     Container(c.kind,
                         [i \in 1..Len(c.entries) |->
                             Entry(c.entries[i].key,
                                   IF isNumeric(c.entries[i].val)
                                       THEN c.entries[i].val ELSE per)]))

\* distributeWeights(weightListOrDict) on a list or a dict of optional weights
distributeWeights(c) ==
    LET weights == ObjectValues(c)
        a == assertWeights(weights)
    IN  IF a.threw THEN Distributed(FALSE, a.err, FALSE, NoContainer)
        ELSE IF a.all THEN Distributed(TRUE, NoError, TRUE, c)
        ELSE LET r == reduceWeights(weights, ZeroZero)
                 per == perUndefinedWeight(r.numericSum, r.undefinedWeights)
                 toNumericWeight(weight) == IF isNumeric(weight) THEN weight ELSE per
             IN  Distributed(TRUE, NoError, FALSE,
                     IF isArray(c)
                         THEN List([i \in 1..Len(weights) |-> toNumericWeight(weights[i])])
                         ELSE fromEntries(
                                  [i \in 1..Len(c.entries) |->
                                      Entry(c.entries[i].key,
                                            toNumericWeight(c.entries[i].val))]))

\* the reducer toNumericSum(sum, value): the new sum, or that it threw
toNumericSum(sum, value) ==
    IF ~isNumeric(sum) THEN [threw |-> TRUE, val |-> sum]
    ELSE IF ~isNumeric(value) THEN [threw |-> FALSE, val |-> sum]
    ELSE [threw |-> FALSE, val |-> Add(sum, value)]

\* values.reduce(toNumericSum, sum)
RECURSIVE reduceNumericSum(_, _)
reduceNumericSum(values, sum) ==
    IF values = << >> THEN [threw |-> FALSE, val |-> sum]
    ELSE LET r == toNumericSum(sum, Head(values))
         IN  IF r.threw THEN r ELSE reduceNumericSum(Tail(values), r.val)

\* What distributeWeights over Scores ends in: as Distributed, with the heap
\* that holds the Scors it created
DistributedScores(ok, err, same, out, h) ==
    [ok |-> ok, err |-> err, same |-> same, out |-> out, heap |-> h]

\* distributeWeights over Scores that sets the weight of every Scor
distributeScoresAll(h, c) ==
    LET refs == ObjectValues(c)
        n == Len(refs)
        created == [i \in 1..n |-> setWeight(h[refs[i]], Num(1)).obj]
    IN  DistributedScores(TRUE, NoError, FALSE,
            Container(c.kind, [i \in 1..n |-> Entry(c.entries[i].key, Len(h) + i)]),
            h \o created)

\* distributeWeights(scores) on a list or a dict of Scors, the entries of c
\* being their indices in the heap h
distributeScores(h, c) ==
    LET refs == ObjectValues(c)
        weights == [i \in 1..Len(refs) |-> h[refs[i]].weight]
        withoutWeight == Len(weights) - Len(SelectSeq(weights, isNumeric))
        sum == reduceNumericSum(weights, Num(0))
    IN  IF withoutWeight = 0 THEN DistributedScores(TRUE, NoError, TRUE, c, h)
        ELSE IF sum.threw
            THEN DistributedScores(FALSE, INVALID_RANGE, FALSE, NoContainer, h)
        ELSE LET remaining == Sub(Num(1), sum.val)
                 weight == IF Gt(remaining, Num(0))
                               THEN Div(remaining, Num(withoutWeight)) ELSE Num(0)
                 \* the unweighted Scors among the first i entries
                 before(i) == Cardinality({j \in 1..i : ~isNumeric(weights[j])})
                 unweighted == SelectSeq(refs, LAMBDA r : ~isNumeric(h[r].weight))
                 created == [j \in 1..Len(unweighted) |->
                                 setWeight(h[unweighted[j]], weight).obj]
                 toNumericWeight(i) ==
                     IF isNumeric(weights[i]) THEN refs[i] ELSE Len(h) + before(i)
                 entries == [i \in 1..Len(refs) |->
                                 Entry(c.entries[i].key, toNumericWeight(i))]
             IN  DistributedScores(TRUE, NoError, FALSE,
                     IF isArray(c) THEN Container("array", entries)
                     ELSE fromEntries(entries),
                     h \o created)

\* ---------------------------------------------------------------- the mean
\* The function createToMean returns: the forItem of the Scor ref, or the
\* closure over scores, weightsList and divisor.  scores and weightsList are
\* the caller's own arrays where the caller passed arrays (scoresAlias,
\* weightsAlias); otherwise they are arrays createToMean made.
Mean(kind, ref, refs, scoresAlias, weighted, weightsList, weightsAlias, divisor) ==
    [kind |-> kind, ref |-> ref, scores |-> refs, scoresAlias |-> scoresAlias,
     weighted |-> weighted, weightsList |-> weightsList,
     weightsAlias |-> weightsAlias, divisor |-> divisor]
NoMean == Mean("none", 0, << >>, FALSE, FALSE, << >>, FALSE, Undefined)

Made(mean) == [ok |-> TRUE, err |-> NoError, mean |-> mean]
NotMade(e) == [ok |-> FALSE, err |-> e, mean |-> NoMean]

\* weights[key], or that weights has no own property key
lookup(c, key) ==
    LET at == {i \in 1..Len(c.entries) : c.entries[i].key = key}
    IN  IF at = {} THEN [has |-> FALSE, val |-> Undefined]
        ELSE [has |-> TRUE, val |-> c.entries[CHOOSE i \in at : TRUE].val]

\* createToMean that takes an empty collection for a mean of nothing
createToMeanEmpty(h, listOrRecord, weights) ==
    IF Len(listOrRecord.entries) = 0
        THEN Made(Mean("closure", 0, << >>, FALSE, FALSE, << >>, FALSE, Num(1)))
    ELSE IF \E i \in 1..Len(listOrRecord.entries) :
               LET sc == h[listOrRecord.entries[i].val]
               IN  sc.toValue = "undefined" \/ ~isNumeric(sc.min) \/ ~isNumeric(sc.max)
        THEN NotMade(INVALID_SCORES)
    ELSE Made(Mean("closure", 0, ObjectValues(listOrRecord), isArray(listOrRecord),
                   FALSE, << >>, FALSE, Num(Len(listOrRecord.entries))))

\* createToMean that takes the weights of a dict in the order of the dict of
\* weights, not under the keys of the Scors
createToMeanByPosition(h, listOrRecord, weights) ==
    LET scores == ObjectValues(listOrRecord)
        given == weights.kind # "undefined"
        weightsList == IF ~given THEN << >> ELSE ObjectValues(weights)
        a == assertWeights(weightsList)
        sum == reduceNumericSum(weightsList, Num(0))
    IN  IF Len(scores) = 0 THEN NotMade(NO_ELEMENT)
        ELSE IF \E i \in 1..Len(scores) :
                   \/ h[scores[i]].toValue = "undefined"
                   \/ ~isNumeric(h[scores[i]].min)
                   \/ ~isNumeric(h[scores[i]].max)
            THEN NotMade(INVALID_SCORES)
        ELSE IF given /\ Len(weightsList) # Len(scores) THEN NotMade(LENGTH_MISMATCH)
        ELSE IF given /\ a.threw THEN NotMade(a.err)
        ELSE IF given /\ ~a.all THEN NotMade(NOT_NUMERIC_WEIGHTS)
        ELSE IF Len(scores) = 1
            THEN Made(Mean("forItem", scores[1], << >>, FALSE, FALSE, << >>, FALSE,
                           Undefined))
        ELSE Made(Mean("closure", 0, scores, isArray(listOrRecord), given,
                       weightsList, given /\ isArray(weights),
                       IF given THEN sum.val ELSE Num(Len(scores))))

\* createToMean that looks for toValue and a numeric min, not for max
createToMeanNoMax(h, listOrRecord, weights) ==
    LET scores == ObjectValues(listOrRecord)
        given == weights.kind # "undefined"
        keys == ObjectKeys(listOrRecord)
        missing == ~isArray(weights) /\ given /\
                   \E i \in 1..Len(keys) : ~lookup(weights, keys[i]).has
        weightsList ==
            IF ~given THEN << >>
            ELSE IF isArray(weights) THEN ObjectValues(weights)
            ELSE [i \in 1..Len(keys) |-> lookup(weights, keys[i]).val]
        a == assertWeights(weightsList)
        sum == reduceNumericSum(weightsList, Num(0))
    IN  IF missing THEN NotMade(MISSING_KEY)
        ELSE IF Len(scores) = 0 THEN NotMade(NO_ELEMENT)
        ELSE IF \E i \in 1..Len(scores) :
                   \/ h[scores[i]].toValue = "undefined"
                   \/ ~isNumeric(h[scores[i]].min)
            THEN NotMade(INVALID_SCORES)
        ELSE IF given /\ Len(weightsList) # Len(scores) THEN NotMade(LENGTH_MISMATCH)
        ELSE IF given /\ a.threw THEN NotMade(a.err)
        ELSE IF given /\ ~a.all THEN NotMade(NOT_NUMERIC_WEIGHTS)
        ELSE IF Len(scores) = 1
            THEN Made(Mean("forItem", scores[1], << >>, FALSE, FALSE, << >>, FALSE,
                           Undefined))
        ELSE Made(Mean("closure", 0, scores, isArray(listOrRecord), given,
                       weightsList, given /\ isArray(weights),
                       IF given THEN sum.val ELSE Num(Len(scores))))

\* createToMean that calls assertWeights for its errors and does not look at
\* what it returns
createToMeanPartial(h, listOrRecord, weights) ==
    LET scores == ObjectValues(listOrRecord)
        given == weights.kind # "undefined"
        keys == ObjectKeys(listOrRecord)
        missing == ~isArray(weights) /\ given /\
                   \E i \in 1..Len(keys) : ~lookup(weights, keys[i]).has
        weightsList ==
            IF ~given THEN << >>
            ELSE IF isArray(weights) THEN ObjectValues(weights)
            ELSE [i \in 1..Len(keys) |-> lookup(weights, keys[i]).val]
        a == assertWeights(weightsList)
        sum == reduceNumericSum(weightsList, Num(0))
    IN  IF missing THEN NotMade(MISSING_KEY)
        ELSE IF Len(scores) = 0 THEN NotMade(NO_ELEMENT)
        ELSE IF \E i \in 1..Len(scores) :
                   \/ h[scores[i]].toValue = "undefined"
                   \/ ~isNumeric(h[scores[i]].min)
                   \/ ~isNumeric(h[scores[i]].max)
            THEN NotMade(INVALID_SCORES)
        ELSE IF given /\ Len(weightsList) # Len(scores) THEN NotMade(LENGTH_MISMATCH)
        ELSE IF given /\ a.threw THEN NotMade(a.err)
        ELSE IF Len(scores) = 1
            THEN Made(Mean("forItem", scores[1], << >>, FALSE, FALSE, << >>, FALSE,
                           Undefined))
        ELSE Made(Mean("closure", 0, scores, isArray(listOrRecord), given,
                       weightsList, given /\ isArray(weights),
                       IF given THEN sum.val ELSE Num(Len(scores))))

\* createToMean(listOrRecord, weights), the entries of listOrRecord being
\* indices in the heap h: the function it returns, or the error thrown
createToMean(h, listOrRecord, weights) ==
    LET scores == ObjectValues(listOrRecord)
        given == weights.kind # "undefined"
        keys == ObjectKeys(listOrRecord)
        missing == ~isArray(weights) /\ given /\
                   \E i \in 1..Len(keys) : ~lookup(weights, keys[i]).has
        weightsList ==
            IF ~given THEN << >>
            ELSE IF isArray(weights) THEN ObjectValues(weights)
            ELSE [i \in 1..Len(keys) |-> lookup(weights, keys[i]).val]
        a == assertWeights(weightsList)
        sum == reduceNumericSum(weightsList, Num(0))
    IN  IF missing THEN NotMade(MISSING_KEY)
        ELSE IF Len(scores) = 0 THEN NotMade(NO_ELEMENT)
        ELSE IF \E i \in 1..Len(scores) :
                   \/ h[scores[i]].toValue = "undefined"
                   \/ ~isNumeric(h[scores[i]].min)
                   \/ ~isNumeric(h[scores[i]].max)
            THEN NotMade(INVALID_SCORES)
        ELSE IF given /\ Len(weightsList) # Len(scores) THEN NotMade(LENGTH_MISMATCH)
        ELSE IF given /\ a.threw THEN NotMade(a.err)
        ELSE IF given /\ ~a.all THEN NotMade(NOT_NUMERIC_WEIGHTS)
        ELSE IF Len(scores) = 1
            THEN Made(Mean("forItem", scores[1], << >>, FALSE, FALSE, << >>, FALSE,
                           Undefined))
        ELSE Made(Mean("closure", 0, scores, isArray(listOrRecord), given,
                       weightsList, given /\ isArray(weights),
                       IF given THEN sum.val ELSE Num(Len(scores))))

\* scores.reduce((sum, score, i) => sum + weighted(score.forItem(item), i), sum)
\* from the i-th Scor on: the sum, or the error of the first forItem that
\* throws, and how often a toValue was invoked
RECURSIVE reduceScores(_, _, _, _, _, _, _)
reduceScores(h, refs, weighted, weightsList, item, i, sum) ==
    IF i > Len(refs) THEN [out |-> Returned(sum), calls |-> 0]
    ELSE LET r == forItem(h[refs[i]], item)
             weight == IF i <= Len(weightsList) THEN weightsList[i] ELSE Undefined
             value == IF weighted THEN Times(r.out.val, weight) ELSE r.out.val
         IN  IF r.out.kind = "throw" THEN r
             ELSE LET rest == reduceScores(h, refs, weighted, weightsList, item,
                                           i + 1, Plus(sum, value))
                  IN  [out |-> rest.out, calls |-> r.calls + rest.calls]

\* the mean that scores every item with the Scors whose toValue does not throw
toMeanCatch(h, mean, listOrRecord, weights, item) ==
    IF mean.kind = "forItem"
        THEN LET r == forItem(h[mean.ref], item)
             IN  IF r.out.kind = "throw" THEN [out |-> Returned(Num(0)), calls |-> r.calls]
                 ELSE r
    ELSE LET ok == SelectSeq(mean.scores,
                             LAMBDA r : forItem(h[r], item).out.kind # "throw")
             r == reduceScores(h, ok, FALSE, << >>, item, 1, Num(0))
         IN  [out |-> Returned(Over(r.out.val, mean.divisor)),
              calls |-> Len(mean.scores)]

\* toMean(item), the function createToMean returned, the caller holding the
\* list or dict of Scors and the weights it passed
toMean(h, mean, listOrRecord, weights, item) ==
    IF mean.kind = "forItem" THEN forItem(h[mean.ref], item)
    ELSE LET refs == IF mean.scoresAlias THEN ObjectValues(listOrRecord)
                     ELSE mean.scores
             weightsList == IF mean.weightsAlias THEN ObjectValues(weights)
                            ELSE mean.weightsList
             r == reduceScores(h, refs, mean.weighted, weightsList, item, 1, Num(0))
         IN  IF r.out.kind = "throw" THEN r
             ELSE [out |-> Returned(Over(r.out.val, mean.divisor)), calls |-> r.calls]

\* ------------------------------------------------------------------- state
VARIABLES
    heap,      \* the live Scor objects: heap[1] is the Scor the caller holds,
               \* heap[2] the Scor the latest call returned; identity is the index
    built,     \* the option values heap[1] was built from
    options,   \* the options object the caller passed to scor() and still holds
    last,      \* the latest call: operation, arguments and outcome
    calls,     \* how often the latest call invoked a toValue function
    items,     \* the item list given to the latest getItemRange / scorForItems
    range,     \* the pair [min, max] the latest getItemRange returned
    weights,   \* the list or dict of weights the caller holds
    dist,      \* what the latest distributeWeights ended in
    scores,    \* the list or dict of Scors the caller holds, by heap index
    mean,      \* the function the latest createToMean returned
    passed     \* the scores and weights as they were when it was called

vars == <<heap, built, options, last, calls, items, range, weights, dist,
          scores, mean, passed>>

rangeVars == <<items, range>>
weightVars == <<weights, dist>>
meanVars == <<scores, mean, passed>>

Call(op, a, b, tv, w, out) ==
    [op |-> op, a |-> a, b |-> b, tv |-> tv, w |-> w, out |-> out]

NoOptions == Options(Undefined, Undefined, "undefined", Undefined)
NoCall == Call("none", Undefined, Undefined, "undefined", Undefined, None)

\* the two arguments of a call of createToMean
Passed(listOrRecord, weightsArg) == [scores |-> listOrRecord, weights |-> weightsArg]
NoPassed == Passed(NoContainer, NoContainer)

Updaters == {"setMin", "setMax", "setRange", "setToValue", "setWeight"}

\* the stored fields of a Scor, as an options record
Fields(s) == Options(s.min, s.max, s.toValue, s.weight)

\* the caller is between two calls and holds a Scor
Idle == heap # << >> /\ last = NoCall /\ scores = NoContainer

\* the item lists given to getItemRange / scorForItems
RECURSIVE ListsOf(_, _)
ListsOf(S, n) ==
    IF n = 0 THEN {<< >>}
    ELSE LET shorter == ListsOf(S, n - 1)
         IN  shorter \cup {Append(l, x) : l \in {k \in shorter : Len(k) = n - 1}, x \in S}

ItemLists == ListsOf(RangeItems, MaxItems)

Init ==
    /\ heap = << >>
    /\ built = NoOptions
    /\ options = NoOptions
    /\ last = NoCall
    /\ calls = 0
    /\ items = << >>
    /\ range = NoRange
    /\ weights = NoContainer
    /\ dist = NoDistributed
    /\ scores = NoContainer
    /\ mean = NoMean
    /\ passed = NoPassed

\* The first call of a run, scor(o): the caller holds the Scor it returns, or
\* is left with the error.
Build(o) ==
    LET res == scor(o)
    IN  /\ calls' = 0
        /\ IF res.ok
             THEN /\ heap' = <<res.obj>>
                  /\ built' = o
                  /\ last' = Call("scor", o.min, o.max, o.toValue, o.weight, Created(1))
             ELSE /\ UNCHANGED <<heap, built>>
                  /\ last' = Call("scor", o.min, o.max, o.toValue, o.weight,
                                  Threw(res.err))

\* scor({ min, max, toValue, weight }) on an object literal
Scor ==
    /\ heap = << >>
    /\ last = NoCall
    /\ scores = NoContainer
    /\ \E min \in Values, max \in Values, tv \in ToValueOpts, w \in Values :
        Build(Options(min, max, tv, w))
    /\ UNCHANGED <<options, rangeVars, weightVars, meanVars>>

\* An updater that writes the new fields into the Scor it was given
UpdateInPlace(op, a, b, tv, w, res) ==
    /\ Idle
    /\ calls' = 0
    /\ UNCHANGED <<built, options, rangeVars, weightVars, meanVars>>
    /\ IF res.ok
         THEN /\ heap' = <<res.obj>>
              /\ last' = Call(op, a, b, tv, w, Created(1))
         ELSE /\ UNCHANGED heap
              /\ last' = Call(op, a, b, tv, w, Threw(res.err))

\* An updater called with the Scor the caller holds: scor() returns a new
\* object beside it, or throws and returns nothing.
Update(op, a, b, tv, w, res) ==
    /\ Idle
    /\ calls' = 0
    /\ UNCHANGED <<built, options, rangeVars, weightVars, meanVars>>
    /\ IF res.ok
         THEN /\ heap' = <<heap[1], res.obj>>
              /\ last' = Call(op, a, b, tv, w, Created(2))
         ELSE /\ UNCHANGED heap
              /\ last' = Call(op, a, b, tv, w, Threw(res.err))

SetMin ==
    /\ Idle
    /\ \E min \in Values :
        Update("setMin", min, Undefined, "undefined", Undefined,
               setMin(heap[1], min))

SetMax ==
    /\ Idle
    /\ \E max \in Values :
        Update("setMax", Undefined, max, "undefined", Undefined,
               setMax(heap[1], max))

SetRange ==
    /\ Idle
    /\ \E min \in Values, max \in Values :
        Update("setRange", min, max, "undefined", Undefined,
               setRange(heap[1], min, max))

SetToValue ==
    /\ Idle
    /\ \E tv \in ToValueOpts :
        Update("setToValue", Undefined, Undefined, tv, Undefined,
               setToValue(heap[1], tv))

SetWeight ==
    /\ Idle
    /\ \E w \in Values :
        Update("setWeight", Undefined, Undefined, "undefined", w,
               setWeight(heap[1], w))

\* score.forValue(value)
ForValue ==
    /\ Idle
    /\ \E value \in Values :
        /\ last' = Call("forValue", value, Undefined, "undefined", Undefined,
                        forValue(heap[1], value))
        /\ calls' = 0
        /\ UNCHANGED <<heap, built, options, rangeVars, weightVars, meanVars>>

\* score.forItem(item)
ForItem ==
    /\ Idle
    /\ \E item \in Items :
        LET r == forItem(heap[1], item)
        IN  /\ last' = Call("forItem", item, Undefined, "undefined", Undefined, r.out)
            /\ calls' = r.calls
            /\ UNCHANGED <<heap, built, options, rangeVars, weightVars, meanVars>>

\* score.forItem(item) for an item of items, score being the Scor that
\* scorForItems(toValue, items) has just returned
ForItemOfItems ==
    /\ last.op = "scorForItems"
    /\ last.out = Created(1)
    /\ \E i \in 1..Len(items) :
        LET r == forItem(heap[1], items[i])
        IN  /\ last' = Call("forItem", items[i], Undefined, "undefined", Undefined, r.out)
            /\ calls' = r.calls
            /\ UNCHANGED <<heap, built, options, rangeVars, weightVars, meanVars>>

\* The caller has seen the outcome of the latest call and goes on, with the
\* Scor it held or with the one the call returned (score = setMin(score, 5)).
Hold ==
    /\ heap # << >>
    /\ last # NoCall
    /\ scores = NoContainer
    /\ \E k \in DOMAIN heap :
        /\ heap' = <<heap[k]>>
        /\ built' = Fields(heap[k])
    /\ last' = NoCall
    /\ calls' = 0
    /\ items' = << >>
    /\ range' = NoRange
    /\ UNCHANGED <<options, weightVars, meanVars>>

\* getItemRange(toValue, items) on a list the caller made
GetItemRange ==
    /\ heap = << >>
    /\ last = NoCall
    /\ scores = NoContainer
    /\ \E tv \in ToValues, list \in ItemLists :
        LET r == getItemRange(tv, list)
        IN  /\ items' = list
            /\ range' = r.range
            /\ calls' = r.calls
            /\ last' = Call("getItemRange", Undefined, Undefined, tv, Undefined,
                            IF r.ok THEN None ELSE Threw(r.err))
    /\ UNCHANGED <<heap, built, options, weightVars, meanVars>>

\* scorForItems(toValue, items) as the first call of a run: the caller holds
\* the Scor it returns
ScorForItems ==
    /\ heap = << >>
    /\ last = NoCall
    /\ scores = NoContainer
    /\ \E tv \in ToValues, list \in ItemLists :
        LET r == scorForItems(tv, list)
        IN  /\ items' = list
            /\ calls' = r.calls
            /\ IF r.ok
                 THEN /\ heap' = <<r.obj>>
                      /\ built' = Fields(r.obj)
                      /\ last' = Call("scorForItems", Undefined, Undefined, tv,
                                      Undefined, Created(1))
                 ELSE /\ UNCHANGED <<heap, built>>
                      /\ last' = Call("scorForItems", Undefined, Undefined, tv,
                                      Undefined, Threw(r.err))
    /\ UNCHANGED <<options, range, weightVars, meanVars>>

KeyNames == <<"a", "b", "c", "d", "e", "f", "g", "h">>
Keys == {KeyNames[i] : i \in 1..MaxWeights}

\* distributeWeights(weights)
DistributeWeights ==
    /\ last = NoCall
    /\ weights # NoContainer
    /\ LET r == distributeWeights(weights)
       IN  /\ dist' = r
           /\ last' = Call("distributeWeights", Undefined, Undefined, "undefined",
                           Undefined, IF r.ok THEN None ELSE Threw(r.err))
    /\ UNCHANGED <<heap, built, options, calls, rangeVars, weights, meanVars>>

\* the Scors the caller puts into a list or dict for createToMean
MeanPool ==
    {scor(Options(Num(0), Num(MaxNum), "toP", Undefined)).obj,
     scor(Options(Num(0 - 1), Num(MaxNum), "toPOrThrow", Undefined)).obj,
     scor(Options(Num(0), Num(MaxNum), "toThrow", Undefined)).obj,
     scor(Options(Num(0), Num(0), "toThrow", Undefined)).obj,
     scor(Options(Undefined, Undefined, "undefined", Undefined)).obj}

\* the weights the caller makes for a list or dict of Scors: none, or a list
\* or dict of the same shape and keys
MeanWeights(c) ==
    {NoContainer} \cup
    {Container(c.kind, [i \in 1..Len(c.entries) |-> Entry(c.entries[i].key, l[i])]) :
         l \in {k \in ListsOf({Num(1), Frac(1, 4)}, Len(c.entries)) :
                    Len(k) = Len(c.entries)}}

\* The caller puts Scors that scor() returned into a list or a dict, and may
\* make a list or dict of weights for them.
Collect ==
    /\ heap = << >>
    /\ last = NoCall
    /\ scores = NoContainer
    /\ \E h \in ListsOf(MeanPool, MaxWeights) :
        /\ heap' = h
        /\ \E c \in {List([i \in 1..Len(h) |-> i]),
                      Dict(KeyNames, [i \in 1..Len(h) |-> i])} :
            /\ scores' = c
            /\ weights' \in MeanWeights(c)
    /\ UNCHANGED <<built, options, last, calls, rangeVars, dist, mean, passed>>

\* createToMean(scores, weights), or createToMean(scores) without weights
CreateToMean ==
    /\ scores # NoContainer
    /\ last = NoCall
    /\ LET r == createToMean(heap, scores, weights)
       IN  /\ mean' = r.mean
           /\ passed' = Passed(scores, weights)
           /\ last' = Call("createToMean", Undefined, Undefined, "undefined",
                           Undefined, IF r.ok THEN None ELSE Threw(r.err))
    /\ calls' = 0
    /\ UNCHANGED <<heap, built, options, rangeVars, weightVars, scores>>

\* toMean(item), toMean being the function createToMean returned
ToMean ==
    /\ mean # NoMean
    /\ \E item \in Items :
        LET r == toMean(heap, mean, scores, weights, item)
        IN  /\ last' = Call("toMean", item, Undefined, "undefined", Undefined, r.out)
            /\ calls' = r.calls
    /\ UNCHANGED <<heap, built, options, rangeVars, weightVars, meanVars>>

Next ==
    \/ Scor
    \/ ScorForItems
    \/ GetItemRange
    \/ Collect
    \/ CreateToMean
    \/ ToMean
    \/ DistributeWeights
    \/ SetMin
    \/ SetMax
    \/ SetRange
    \/ SetToValue
    \/ SetWeight
    \/ ForValue
    \/ ForItem
    \/ ForItemOfItems
    \/ Hold

Spec == Init /\ [][Next]_vars

\* --------------------------------------------- the caller's options object
\* The caller builds an options object, passes it to scor() and keeps it.
InitOptions ==
    /\ heap = << >>
    /\ built = NoOptions
    /\ options \in {Options(min, max, tv, w) :
                        min \in Values, max \in Values,
                        tv \in ToValueOpts, w \in Values}
    /\ last = NoCall
    /\ calls = 0
    /\ items = << >>
    /\ range = NoRange
    /\ weights = NoContainer
    /\ dist = NoDistributed
    /\ scores = NoContainer
    /\ mean = NoMean
    /\ passed = NoPassed

\* scor(options)
ScorOptions ==
    /\ heap = << >>
    /\ last = NoCall
    /\ Build(options)
    /\ UNCHANGED <<options, rangeVars, weightVars, meanVars>>

\* options[field] = v after scor(options) returned, one field at a time
\* (options.min--, options.min++, options.toValue = getZero)
MutateOptions ==
    /\ heap # << >>
    /\ \/ \E f \in {"min", "max", "weight"}, v \in Values :
            /\ \A g \in DOMAIN options \ {f} : options[g] = built[g]
            /\ options' = [options EXCEPT ![f] = v]
       \/ \E tv \in ToValueOpts :
            /\ \A g \in DOMAIN options \ {"toValue"} : options[g] = built[g]
            /\ options' = [options EXCEPT !.toValue = tv]
    /\ UNCHANGED <<heap, built, last, calls, rangeVars, weightVars, meanVars>>

\* score.toValue = getZero, score.min++, score.max++, score.weight++
Assign ==
    /\ heap # << >>
    /\ \E f \in {"min", "max", "toValue", "weight"} :
        LET v == IF f = "toValue" THEN "getZero" ELSE Inc(heap[1][f])
            res == assign(heap[1], f, v)
        IN  /\ heap' = <<res.obj>>
            /\ last' = Call("assign", Undefined, Undefined, f, Undefined,
                            IF res.ok THEN None ELSE Threw(res.err))
    /\ calls' = 0
    /\ UNCHANGED <<built, options, rangeVars, weightVars, meanVars>>

NextOptions ==
    \/ ScorOptions
    \/ MutateOptions
    \/ Assign

SpecOptions == InitOptions /\ [][NextOptions]_vars

\* ------------------------------------------------- distribution of weights
\* the weights of the lists and dicts: undefined, finite numbers and values
\* that are not numeric
Weights == {Undefined, Num(0 - 1), Num(0), Frac(1, 4), Num(1), NaN, PosInfinity, Null}


\* the sequences of n different keys
RECURSIVE KeyLists(_)
KeyLists(n) ==
    IF n = 0 THEN {<< >>}
    ELSE {Append(l, k) : l \in KeyLists(n - 1), k \in Keys} \cap
         {l \in [1..n -> Keys] : \A i, j \in 1..n : l[i] = l[j] => i = j}

KeyListsOf == [n \in 0..MaxWeights |-> KeyLists(n)]

\* c is a list of weights, or a dict of them with its keys in any order
WeightContainer(c) ==
    \E n \in 0..MaxWeights : \E l \in [1..n -> Weights] :
        \/ c = List(l)
        \/ \E k \in KeyListsOf[n] : c = Dict(k, l)

\* the Scors of the lists and dicts whose weights are distributed
ScorPool ==
    {scor(Options(Num(0), Num(MaxNum), "toP", w)).obj :
         w \in {Undefined, Num(0), Frac(1, 4), Num(1)}}
    \cup {scor(Options(Undefined, Undefined, "undefined", Undefined)).obj}

ScorLists == ListsOf(ScorPool, MaxWeights)

\* the lists and dicts of the Scors in a heap of n objects
ScorContainers(n) ==
    {List([i \in 1..n |-> i])} \cup {Dict(k, [i \in 1..n |-> i]) : k \in KeyLists(n)}

\* The caller holds a list or a dict of optional weights, or one of Scors.
InitWeights ==
    /\ built = NoOptions
    /\ options = NoOptions
    /\ last = NoCall
    /\ calls = 0
    /\ items = << >>
    /\ range = NoRange
    /\ dist = NoDistributed
    /\ mean = NoMean
    /\ passed = NoPassed
    /\ \/ /\ WeightContainer(weights)
          /\ heap = << >>
          /\ scores = NoContainer
       \/ /\ weights = NoContainer
          /\ heap \in ScorLists
          /\ scores \in ScorContainers(Len(heap))

\* distributeWeights(scores), where it takes Scors
DistributeScores ==
    /\ last = NoCall
    /\ scores # NoContainer
    /\ LET r == distributeScores(heap, scores)
       IN  /\ dist' = Distributed(r.ok, r.err, r.same, r.out)
           /\ heap' = r.heap
           /\ last' = Call("distributeScores", Undefined, Undefined, "undefined",
                           Undefined, IF r.ok THEN None ELSE Threw(r.err))
    /\ UNCHANGED <<built, options, calls, rangeVars, weights, meanVars>>

\* distributeWeights(distributeWeights(weights)): the weights the latest call
\* returned are passed to it again
DistributeAgain ==
    /\ last.op = "distributeWeights"
    /\ dist.ok
    /\ LET r == distributeWeights(dist.out)
       IN  /\ weights' = dist.out
           /\ dist' = r
           /\ last' = Call("distributeWeights", Undefined, Undefined, "undefined",
                           Undefined, IF r.ok THEN None ELSE Threw(r.err))
    /\ UNCHANGED <<heap, built, options, calls, rangeVars, meanVars>>

\* createToMean(scores, distributeWeights(weights)), for a list or dict of
\* Scors with a range that has the keys of the weights
MeanOfDistributed ==
    /\ last.op = "distributeWeights"
    /\ dist.ok
    /\ scores = NoContainer
    /\ LET n == Len(dist.out.entries)
           h == [i \in 1..n |-> scor(Options(Num(0), Num(MaxNum), "toP", Undefined)).obj]
           c == Container(dist.out.kind,
                          [i \in 1..n |-> Entry(dist.out.entries[i].key, i)])
           r == createToMean(h, c, dist.out)
       IN  /\ heap' = h
           /\ scores' = c
           /\ weights' = dist.out
           /\ mean' = r.mean
           /\ passed' = Passed(c, dist.out)
           /\ last' = Call("createToMean", Undefined, Undefined, "undefined",
                           Undefined, IF r.ok THEN None ELSE Threw(r.err))
    /\ calls' = 0
    /\ UNCHANGED <<built, options, rangeVars, dist>>

NextWeights ==
    \/ DistributeWeights
    \/ DistributeScores
    \/ DistributeAgain
    \/ MeanOfDistributed

SpecWeights == InitWeights /\ [][NextWeights]_vars

\* ------------------------------------------------------- the mean of Scors
\* Two Scors with a range and an extractor that does not throw, which give
\* the item 0 different scores
RangedScors ==
    <<scor(Options(Num(0), Num(MaxNum), "toP", Undefined)).obj,
      scor(Options(Num(0 - 1), Num(MaxNum), "toP", Undefined)).obj>>

\* the Scors createToMean accepts: these two, one with an empty range, one
\* whose extractor throws for an item
AcceptedScors ==
    {RangedScors[1], RangedScors[2],
     scor(Options(Num(0), Num(0), "toP", Undefined)).obj,
     scor(Options(Num(0), Num(MaxNum), "toPOrThrow", Undefined)).obj}

\* Scors without toValue, without min, without max
RejectedScors ==
    {scor(Options(Num(0), Num(MaxNum), "undefined", Undefined)).obj,
     scor(Options(Undefined, Num(MaxNum), "toP", Undefined)).obj,
     scor(Options(Num(0), Undefined, "toP", Undefined)).obj}

\* the values of the weights given to createToMean
MeanWeightValues == {Undefined, Num(0 - 1), Num(0), Num(1), NaN}

\* the elements of a set of numbers, in increasing or in decreasing order
Ordered(K, up) ==
    [i \in 1..Cardinality(K) |->
        CHOOSE k \in K :
            Cardinality({j \in K : IF up THEN j < k ELSE j > k}) = i - 1]

\* c is the weights argument: none, a list of weights of any length, or a
\* dict of weights under any of the keys, in either order
WeightsArgument(c) ==
    \/ c = NoContainer
    \/ \E n \in 0..MaxWeights : \E l \in [1..n -> MeanWeightValues] : c = List(l)
    \/ \E K \in SUBSET (1..MaxWeights), up \in BOOLEAN :
          \E l \in [1..Cardinality(K) -> MeanWeightValues] :
              c = Dict([i \in 1..Cardinality(K) |-> KeyNames[Ordered(K, up)[i]]], l)

\* weights of the shape of c that are all 1
Ones(c) ==
    Container(c.kind, [i \in 1..Len(c.entries) |-> Entry(c.entries[i].key, Num(1))])

\* The caller holds a list or a dict of Scors, whether createToMean accepts
\* them or not, and with them no weights, weights that match them, or (for
\* Scors with a range) any weights argument.
InitMean ==
    /\ built = NoOptions
    /\ options = NoOptions
    /\ last = NoCall
    /\ calls = 0
    /\ items = << >>
    /\ range = NoRange
    /\ dist = NoDistributed
    /\ mean = NoMean
    /\ passed = NoPassed
    /\ \E n \in 0..MaxWeights :
        \E c \in {List([i \in 1..n |-> i]), Dict(KeyNames, [i \in 1..n |-> i])} :
            /\ scores = c
            /\ \/ /\ heap \in [1..n -> AcceptedScors \cup RejectedScors]
                  /\ weights \in {NoContainer, Ones(c)}
               \/ /\ heap = [i \in 1..n |-> RangedScors[2 - (i % 2)]]
                  /\ WeightsArgument(weights)

\* the key under which a new entry is put
NextKey(c) ==
    IF isArray(c) THEN IndexKeys[Len(c.entries) + 1] ELSE KeyNames[Len(c.entries) + 1]

\* Between two calls of toMean the caller changes the list or dict of Scors
\* or the weights it passed to createToMean: scores.push(score),
\* scores.pop(), scores[0] = scores[scores.length - 1], weights[i] = w (for
\* a dict: scores.k = score, delete scores.k, weights.k = w).
Change ==
    /\ mean # NoMean
    /\ scores = passed.scores
    /\ weights = passed.weights
    /\ \/ \E s \in {RangedScors[1],
                    scor(Options(Num(0), Undefined, "toP", Undefined)).obj} :
            /\ heap' = Append(heap, s)
            /\ scores' = [scores EXCEPT
                              !.entries = Append(@, Entry(NextKey(scores), Len(heap) + 1))]
            /\ UNCHANGED weights
       \/ /\ Len(scores.entries) > 0
          /\ scores' = [scores EXCEPT !.entries = SubSeq(@, 1, Len(@) - 1)]
          /\ UNCHANGED <<heap, weights>>
       \/ /\ Len(scores.entries) > 1
          /\ scores' = [scores EXCEPT
                            !.entries[1].val = scores.entries[Len(scores.entries)].val]
          /\ UNCHANGED <<heap, weights>>
       \/ /\ \E i \in 1..Len(weights.entries) :
                weights' = [weights EXCEPT !.entries[i].val = Num(MaxNum)]
          /\ UNCHANGED <<heap, scores>>
    /\ UNCHANGED <<built, options, last, calls, rangeVars, dist, mean, passed>>

NextMean ==
    \/ CreateToMean
    \/ ToMean
    \/ Change

SpecMean == InitMean /\ [][NextMean]_vars

\* ------------------------------------------------------------------ claims
\* Arithmetic of the claims, on finite numbers n/d only
IsFinite(x) == x.t = "number"
Below(x, y) == x.n * y.d < y.n * x.d
AtMost(x, y) == x.n * y.d <= y.n * x.d
\* r = (a - b) / (c - b), without dividing
IsQuotient(r, a, b, c) ==
    /\ IsFinite(r)
    /\ r.n * (c.n * b.d - b.n * c.d) * a.d = r.d * (a.n * b.d - b.n * a.d) * c.d

\* s has a range of non-zero length
HasRange(s) == IsFinite(s.min) /\ IsFinite(s.max) /\ Below(s.min, s.max)
\* s has a range of zero length
HasEmptyRange(s) == IsFinite(s.min) /\ IsFinite(s.max) /\ s.min = s.max
IsRangeError(out) ==
    out.kind = "throw" /\ out.err.class = "RangeError" /\ out.err.msg = "Invalid range"
IsTypeError(out) == out.kind = "throw" /\ out.err.class = "TypeError"

\* C1: on a Scor with finite min < max, forValue(value) is 0 when value is not
\* a finite number or value <= min, 1 when value is finite and >= max, and
\* (value - min) / (max - min) in between; forValue(+Infinity) is 0.
C1_ForValue ==
    (last.op = "forValue" /\ HasRange(heap[1])) =>
        LET s == heap[1]
            v == last.a
            r == last.out
        IN  /\ r.kind = "number"
            /\ (~IsFinite(v) \/ AtMost(v, s.min)) => r.val = Num(0)
            /\ (IsFinite(v) /\ AtMost(s.max, v)) => r.val = Num(1)
            /\ (IsFinite(v) /\ Below(s.min, v) /\ Below(v, s.max)) =>
                    IsQuotient(r.val, v, s.min, s.max)
            /\ v = PosInfinity => r.val = Num(0)

C1_Witness ==
    /\ last.op = "forValue"
    /\ HasRange(heap[1])
    /\ IsFinite(last.a)
    /\ Below(heap[1].min, last.a)
    /\ Below(last.a, heap[1].max)
    /\ last.out.kind = "number"
    /\ last.out.val \notin {Num(0), Num(1)}

\* C2: on a Scor with min === max, forValue and forItem return 0 for every
\* input, forItem never invokes toValue, and it returns 0 without a toValue.
C2_EmptyRange ==
    (heap # << >> /\ HasEmptyRange(heap[1]) /\ last.op \in {"forValue", "forItem"}) =>
        /\ last.out = Returned(Num(0))
        /\ calls = 0

C2_Witness ==
    /\ last.op = "forItem"
    /\ HasEmptyRange(heap[1])
    /\ heap[1].toValue = "undefined"
    /\ last.out = Returned(Num(0))

\* what scor() accepts as a weight: none, or a finite number >= 0
WeightOk(w) == w = Undefined \/ (IsFinite(w) /\ w.n >= 0)
\* what scor() accepts as one end of the range: none, or a finite number
EndOk(x) == x = Undefined \/ IsFinite(x)
\* the min / max combinations scor() rejects
RangeFails(a, b) ==
    \/ ~EndOk(a)
    \/ ~EndOk(b)
    \/ IsFinite(a) /\ IsFinite(b) /\ Below(b, a)

\* C3: scor() with min or max missing (and what is provided valid) returns a
\* Scor that stores exactly what was provided; forValue and forItem of a Scor
\* without min or max fail with RangeError "Invalid range", with or without
\* a toValue, and toValue is not invoked.
C3_MissingRange ==
    /\ (/\ last.op = "scor"
        /\ last.a = Undefined \/ last.b = Undefined
        /\ EndOk(last.a) /\ EndOk(last.b) /\ WeightOk(last.w)) =>
            /\ last.out = Created(1)
            /\ Fields(heap[1]) = Options(last.a, last.b, last.tv, last.w)
    /\ (/\ heap # << >>
        /\ heap[1].min = Undefined \/ heap[1].max = Undefined
        /\ last.op \in {"forValue", "forItem"}) =>
            /\ IsRangeError(last.out)
            /\ calls = 0

C3_Witness ==
    /\ last.op = "forItem"
    /\ heap[1].min = Undefined
    /\ IsFinite(heap[1].max)
    /\ heap[1].toValue = "undefined"
    /\ IsRangeError(last.out)

\* C4: scor() (with no weight or a valid one) fails with RangeError "Invalid
\* range" exactly when min is provided and not finite, or max is provided and
\* not finite, or both are provided and min > max; otherwise it returns a Scor.
C4_ScorFails ==
    (last.op = "scor" /\ WeightOk(last.w)) =>
        /\ IsRangeError(last.out) <=> RangeFails(last.a, last.b)
        /\ ~RangeFails(last.a, last.b) => last.out = Created(1)

C4_Witness ==
    /\ last.op = "scor"
    /\ WeightOk(last.w)
    /\ IsFinite(last.a) /\ IsFinite(last.b) /\ Below(last.b, last.a)
    /\ IsRangeError(last.out)

C6_ForItem ==
    (last.op = "forItem" /\ HasRange(heap[1])) =>
        LET s == heap[1]
            x == Apply(s.toValue, last.a)
        IN  IF s.toValue = "undefined"
                THEN /\ IsTypeError(last.out)
                     /\ last.out.err.msg = "Missing toValue"
                     /\ ~IsRangeError(last.out)
                     /\ \A v \in Values : forValue(s, v).kind = "number"
                ELSE IF x.threw THEN last.out = Threw(THROWN)
                ELSE last.out = forValue(s, x.val)

C6_Witness ==
    /\ last.op = "forItem"
    /\ HasRange(heap[1])
    /\ heap[1].toValue = "toP"
    /\ last.out.kind = "number"
    /\ last.out.val \notin {Num(0), Num(1)}

\* C7: every assignment to a field of a Scor is rejected with a TypeError and
\* the Scor keeps the values it was built from, also when the caller changes
\* the options object it passed to scor().
C7_Frozen ==
    heap # << >> =>
        /\ Fields(heap[1]) = built
        /\ last.op = "assign" => IsTypeError(last.out)

C7_Witness ==
    /\ heap # << >>
    /\ last.op = "assign"
    /\ last.tv = "min"
    /\ IsTypeError(last.out)
    /\ options # built
    /\ options.min # heap[1].min

\* C8: an updater call, whether it returns or throws, changes neither the
\* fields of the Scor it was given nor what its forValue / forItem return,
\* and a Scor it returns is another object than the one it was given.
C8_Frame ==
    [][last'.op \in Updaters =>
          /\ heap'[1] = heap[1]
          /\ Fields(heap'[1]) = Fields(heap[1])
          /\ \A v \in Values : forValue(heap'[1], v) = forValue(heap[1], v)
          /\ \A i \in Items : forItem(heap'[1], i) = forItem(heap[1], i)
          /\ last'.out.kind = "Scor" => (last'.out.ref # 1 /\ Len(heap') = 2)]_vars

C8_Witness ==
    /\ last.op = "setRange"
    /\ last.out = Created(2)
    /\ HasRange(heap[1])
    /\ heap[2].min # heap[1].min
    /\ heap[2].max # heap[1].max

\* the fields the updater of the latest call names, set to its arguments
Replaced(f) ==
    CASE last.op = "setMin" -> [f EXCEPT !.min = last.a]
      [] last.op = "setMax" -> [f EXCEPT !.max = last.b]
      [] last.op = "setRange" -> [f EXCEPT !.min = last.a, !.max = last.b]
      [] last.op = "setToValue" -> [f EXCEPT !.toValue = last.tv]
      [] last.op = "setWeight" -> [f EXCEPT !.weight = last.w]

\* C9: the Scor a successful updater returns has the named field(s) set to
\* the argument(s) and every other field among min, max, toValue and weight
\* as in the Scor it was given.
C9_OnlyNamedField ==
    (last.op \in Updaters /\ last.out.kind = "Scor") =>
        Fields(heap[2]) = Replaced(Fields(heap[1]))

C9_Witness ==
    /\ last.op = "setMin"
    /\ last.out = Created(2)
    /\ heap[1].weight = Num(1)
    /\ heap[2].weight = Num(1)
    /\ heap[1].toValue = "toP"
    /\ heap[2].min # heap[1].min

\* the latest call is an updater setting the value the field already has
RoundTrip ==
    /\ last.op \in Updaters
    /\ Replaced(Fields(heap[1])) = Fields(heap[1])

\* C10: an updater called with the value the field already has (undefined
\* included) succeeds, and the Scor it returns has the same min, max, toValue
\* and weight and the same forValue / forItem outcomes, errors included.
C10_RoundTrip ==
    RoundTrip =>
        /\ last.out = Created(2)
        /\ Fields(heap[2]) = Fields(heap[1])
        /\ \A v \in Values : forValue(heap[2], v) = forValue(heap[1], v)
        /\ \A i \in Items : forItem(heap[2], i) = forItem(heap[1], i)

C10_Witness ==
    /\ RoundTrip
    /\ last.op = "setMin"
    /\ heap[1].min = Undefined
    /\ IsFinite(heap[1].max)
    /\ last.out = Created(2)
    /\ IsRangeError(forValue(heap[2], Num(0)))

\* the min and max an updater passes to scor()
NewMin == IF last.op \in {"setMin", "setRange"} THEN last.a ELSE heap[1].min
NewMax == IF last.op \in {"setMax", "setRange"} THEN last.b ELSE heap[1].max

\* C11: an updater fails with RangeError "Invalid range" exactly when scor()
\* fails on the fields it combines: a new min or max that is provided and not
\* finite, a new min above the max, a new max below the min (setMin, setMax,
\* setRange), or an invalid weight (setWeight); setToValue never fails; a
\* failing updater returns no Scor and leaves the caller with the one it had.
C11_UpdaterFails ==
    (last.op \in Updaters) =>
        /\ IsRangeError(last.out) <=> ~scor(Replaced(Fields(heap[1]))).ok
        /\ last.op \in {"setMin", "setMax", "setRange"} =>
                (IsRangeError(last.out) <=> RangeFails(NewMin, NewMax))
        /\ last.op = "setToValue" => last.out = Created(2)
        /\ last.out.kind \in {"Scor", "throw"}
        /\ last.out.kind = "throw" => (IsRangeError(last.out) /\ Len(heap) = 1)

C11_Witness ==
    /\ last.op = "setMax"
    /\ IsFinite(last.b)
    /\ IsFinite(heap[1].min)
    /\ Below(last.b, heap[1].min)
    /\ IsRangeError(last.out)
    /\ Len(heap) = 1

\* the invariants of one Scor
ScorInv(s) ==
    /\ EndOk(s.min)
    /\ EndOk(s.max)
    /\ (IsFinite(s.min) /\ IsFinite(s.max)) => AtMost(s.min, s.max)
    /\ WeightOk(s.weight)

\* C12: every Scor that scor(), scorForItems() and the updaters return has a
\* min and a max that are finite numbers when set, min <= max when both are
\* set, and a weight that is a finite number >= 0 when set.
C12_ScorInvariant ==
    \A k \in DOMAIN heap : ScorInv(heap[k])

C12_Witness ==
    /\ last.op = "setWeight"
    /\ last.out = Created(2)
    /\ heap[1].weight = Undefined
    /\ heap[2].weight = Num(0)
    /\ heap[2].min = heap[2].max
    /\ IsFinite(heap[2].min)
    /\ heap[2].toValue = "toPOrThrow"

\* toValue throws for none of the items of the latest call
NoThrow == \A i \in DOMAIN items : ~Apply(last.tv, items[i]).threw
\* the finite numbers toValue yields over the items of the latest call
FiniteValues ==
    {v \in {Apply(last.tv, items[i]).val : i \in DOMAIN items} : IsFinite(v)}
\* the items of the latest call in the order p
Permuted(p) == [i \in DOMAIN items |-> items[p[i]]]

\* C13: when toValue throws for no item and yields a finite number for at
\* least one, getItemRange returns [lo, hi], the smallest and the largest of
\* the finite numbers it yields (NaN, +-Infinity, null and undefined are
\* ignored), with lo <= hi, lo = hi when there is one such number, and the
\* same pair for every order of the items.
C13_ItemRange ==
    (last.op = "getItemRange" /\ NoThrow /\ FiniteValues # {}) =>
        /\ last.out = None
        /\ Len(range) = 2
        /\ range[1] \in FiniteValues
        /\ range[2] \in FiniteValues
        /\ \A v \in FiniteValues : AtMost(range[1], v) /\ AtMost(v, range[2])
        /\ AtMost(range[1], range[2])
        /\ Cardinality(FiniteValues) = 1 => range[1] = range[2]
        /\ \A p \in Permutations(DOMAIN items) :
                getItemRange(last.tv, Permuted(p)).range = range

C13_Witness ==
    /\ last.op = "getItemRange"
    /\ last.tv = "toP"
    /\ Len(items) = 3
    /\ items[1] = Num(0)
    /\ items[2] = PosInfinity
    /\ items[3] = Num(0 - 1)
    /\ range = <<Num(0 - 1), Num(0)>>

\* C14: getItemRange and scorForItems fail with RangeError "Invalid range"
\* exactly when toValue throws for no item and yields no finite number, as
\* for the empty list and for a list of NaN, +-Infinity, null and undefined;
\* then they return neither a pair nor a Scor.
C14_NoNumericValue ==
    (last.op \in {"getItemRange", "scorForItems"}) =>
        /\ IsRangeError(last.out) <=> (NoThrow /\ FiniteValues = {})
        /\ IsRangeError(last.out) => (range = NoRange /\ heap = << >>)
        /\ items = << >> => IsRangeError(last.out)

C14_Witness ==
    /\ last.op = "scorForItems"
    /\ last.tv = "toP"
    /\ Len(items) = 3
    /\ \A i \in DOMAIN items : items[i] \in NotNumeric \cup {Undefined}
    /\ Undefined \in {items[i] : i \in DOMAIN items}
    /\ Null \in {items[i] : i \in DOMAIN items}
    /\ IsRangeError(last.out)
    /\ heap = << >>

\* C16: the Scor scorForItems returns has the pair of getItemRange for the
\* same arguments as min and max and the extractor it was given as toValue;
\* toValue was invoked once per item; the Scor is the object scor() builds
\* from these three values and holds nothing of the item list.
C16_ScorForItems ==
    (last.op = "scorForItems" /\ last.out.kind = "Scor") =>
        LET r == getItemRange(last.tv, items)
            s == heap[1]
        IN  /\ last.out = Created(1)
            /\ r.ok
            /\ <<s.min, s.max>> = r.range
            /\ s.min \in FiniteValues
            /\ s.max \in FiniteValues
            /\ \A v \in FiniteValues : AtMost(s.min, v) /\ AtMost(v, s.max)
            /\ s.toValue = last.tv
            /\ calls = Len(items)
            /\ DOMAIN s = DOMAIN NoObject
            /\ s = scor(Options(s.min, s.max, last.tv, Undefined)).obj

C16_Witness ==
    /\ last.op = "scorForItems"
    /\ last.tv = "toP"
    /\ items = <<Num(0), Undefined, Num(0 - 1)>>
    /\ last.out = Created(1)
    /\ heap[1].min = Num(0 - 1)
    /\ heap[1].max = Num(0)
    /\ calls = 3

\* a weight that is a finite number >= 0
IsWeight(w) == IsFinite(w) /\ w.n >= 0
\* the sum of the finite numbers of a list of optional weights
RECURSIVE DefinedSum(_)
DefinedSum(ws) ==
    IF ws = << >> THEN Num(0)
    ELSE IF IsFinite(Head(ws)) THEN Add(Head(ws), DefinedSum(Tail(ws)))
    ELSE DefinedSum(Tail(ws))
\* how many weights of the list are undefined
UndefinedCount(ws) == Cardinality({i \in DOMAIN ws : ws[i] = Undefined})
\* v is what an undefined weight of the list ws receives: remaining / k when
\* remaining = 1 - (sum of the defined weights) is > 0, and 0 otherwise
IsShare(v, ws) ==
    LET remaining == Sub(Num(1), DefinedSum(ws))
    IN  /\ IsFinite(v)
        /\ IF remaining.n > 0
               THEN v.n * UndefinedCount(ws) * remaining.d = remaining.n * v.d
               ELSE v = Num(0)
\* the weights of the Scors of a list or dict c
WeightsOf(c) == [i \in 1..Len(c.entries) |-> heap[c.entries[i].val].weight]
\* two lists or dicts have the same shape, length and keys
SameShape(c, e) ==
    /\ c.kind = e.kind
    /\ Len(c.entries) = Len(e.entries)
    /\ \A i \in 1..Len(c.entries) : c.entries[i].key = e.entries[i].key

\* C17: for a list or dict of weights that are undefined or finite and >= 0,
\* with k >= 1 undefined ones, distributeWeights returns a list or dict of
\* the same shape, length and keys, in which every undefined weight became
\* remaining / k (0 when remaining <= 0) and every defined weight, 0 included,
\* kept its value and place.  Over Scors the same holds for their weight
\* fields: a Scor with a weight is returned itself, one without is replaced
\* by a new Scor with that weight and the same min, max and toValue.
C17_Distribute ==
    /\ (/\ last.op = "distributeWeights"
        /\ \A i \in 1..Len(weights.entries) :
               weights.entries[i].val = Undefined \/ IsWeight(weights.entries[i].val)
        /\ UndefinedCount(ObjectValues(weights)) >= 1) =>
            /\ dist.ok
            /\ last.out = None
            /\ SameShape(weights, dist.out)
            /\ \A i \in 1..Len(weights.entries) :
                   LET w == weights.entries[i].val
                       v == dist.out.entries[i].val
                   IN  IF w = Undefined THEN IsShare(v, ObjectValues(weights))
                       ELSE v = w
    /\ (/\ last.op = "distributeScores"
        /\ UndefinedCount(WeightsOf(scores)) >= 1) =>
            /\ dist.ok
            /\ last.out = None
            /\ SameShape(scores, dist.out)
            /\ \A i \in 1..Len(scores.entries) :
                   LET old == scores.entries[i].val
                       new == dist.out.entries[i].val
                   IN  IF heap[old].weight = Undefined
                           THEN /\ new \notin {scores.entries[j].val :
                                                   j \in 1..Len(scores.entries)}
                                /\ \A j \in 1..Len(scores.entries) :
                                       dist.out.entries[j].val = new => j = i
                                /\ IsShare(heap[new].weight, WeightsOf(scores))
                                /\ heap[new].min = heap[old].min
                                /\ heap[new].max = heap[old].max
                                /\ heap[new].toValue = heap[old].toValue
                           ELSE new = old

C17_Witness ==
    /\ last.op = "distributeWeights"
    /\ weights.kind = "object"
    /\ ObjectKeys(weights) = <<"c", "a", "b">>
    /\ ObjectValues(weights) = <<Undefined, Num(0), Undefined>>
    /\ dist.ok
    /\ ~dist.same
    /\ ObjectKeys(dist.out) = <<"c", "a", "b">>
    /\ ObjectValues(dist.out) = <<Frac(1, 2), Num(0), Frac(1, 2)>>

\* the lists and dicts of weights distributeWeights rejects as out of range
BadWeights(c) ==
    \/ \E i \in 1..Len(c.entries) :
          c.entries[i].val # Undefined /\ ~IsWeight(c.entries[i].val)
    \/ /\ \A i \in 1..Len(c.entries) : c.entries[i].val # Undefined
       /\ DefinedSum(ObjectValues(c)) = Num(0)

\* C18: on a non-empty list or dict, distributeWeights fails with RangeError
\* "Invalid range" exactly when an entry other than undefined is not a finite
\* number or is negative (whatever the other entries are), or all entries are
\* defined and their sum is 0; in every other case it returns weights, each a
\* finite number >= 0.
C18_DistributeFails ==
    (last.op = "distributeWeights" /\ Len(weights.entries) > 0) =>
        /\ IsRangeError(last.out) <=> BadWeights(weights)
        /\ last.out.kind = "throw" => (IsRangeError(last.out) /\ ~dist.ok)
        /\ ~BadWeights(weights) =>
               /\ last.out = None
               /\ dist.ok
               /\ Len(dist.out.entries) = Len(weights.entries)
               /\ \A i \in 1..Len(dist.out.entries) : IsWeight(dist.out.entries[i].val)

C18_Witness ==
    /\ last.op = "distributeWeights"
    /\ weights.kind = "array"
    /\ ObjectValues(weights) = <<Undefined, Frac(1, 4), Num(0 - 1)>>
    /\ IsRangeError(last.out)
    /\ ~dist.ok

\* C20: when every entry is a finite weight >= 0 and the sum is > 0, whether
\* it is 1 or not, distributeWeights returns the list or dict it was given,
\* the same object, with every entry as it was.
C20_AllDefined ==
    (/\ last.op = "distributeWeights"
     /\ Len(weights.entries) > 0
     /\ \A i \in 1..Len(weights.entries) : IsWeight(weights.entries[i].val)
     /\ DefinedSum(ObjectValues(weights)).n > 0) =>
        /\ last.out = None
        /\ dist.ok
        /\ dist.same
        /\ dist.out = weights

C20_Witness ==
    /\ last.op = "distributeWeights"
    /\ weights.kind = "object"
    /\ ObjectKeys(weights) = <<"b", "a", "c">>
    /\ ObjectValues(weights) = <<Num(1), Frac(1, 4), Num(1)>>
    /\ dist.same
    /\ dist.out = weights

\* the items of the latest call for which its toValue throws
Throwing == {i \in DOMAIN items : Apply(last.tv, items[i]).threw}
\* the least number of a non-empty set of numbers
Least(S) == CHOOSE i \in S : \A j \in S : i <= j
\* the Scors of the collection, in its order, whose forItem invokes a toValue
Invoking == {i \in 1..Len(scores.entries) : HasRange(heap[scores.entries[i].val])}
\* those of them whose toValue throws for the item of the latest call
ThrowingScors ==
    {i \in Invoking : Apply(heap[scores.entries[i].val].toValue, last.a).threw}

\* C15: an error that toValue throws ends the call with that error and
\* without a result: in getItemRange and scorForItems, where toValue is
\* applied to the items in order and to none after the first for which it
\* throws; in forItem of a Scor with a range; and in the function that
\* createToMean returned, which asks the Scors in order.
C15_ExtractorError ==
    /\ (last.op \in {"getItemRange", "scorForItems"} /\ Throwing # {}) =>
            /\ last.out = Threw(THROWN)
            /\ calls = Least(Throwing)
            /\ range = NoRange
            /\ heap = << >>
    /\ (/\ last.op = "forItem"
        /\ HasRange(heap[1])
        /\ Apply(heap[1].toValue, last.a).threw) =>
            /\ last.out = Threw(THROWN)
            /\ calls = 1
    /\ (last.op = "toMean" /\ ThrowingScors # {}) =>
            /\ last.out = Threw(THROWN)
            /\ calls = Cardinality({i \in Invoking : i <= Least(ThrowingScors)})

C15_Witness ==
    /\ last.op = "getItemRange"
    /\ last.tv = "toPOrThrow"
    /\ items = <<Num(0), NaN, Num(0 - 1)>>
    /\ last.out = Threw(THROWN)
    /\ calls = 2
    /\ range = NoRange

\* the messages that contain "at least one"
AtLeastOne ==
    {"Expected at least one weight.", "Expected at least one element in scores."}

\* C19: distributeWeights on an empty list or dict, and createToMean on an
\* empty list or dict of Scors, with or without weights, fail with a
\* TypeError whose message contains "at least one", and return nothing.
C19_EmptyInput ==
    /\ (last.op = "distributeWeights" /\ Len(weights.entries) = 0) =>
            /\ IsTypeError(last.out)
            /\ last.out.err.msg \in AtLeastOne
            /\ ~dist.ok
            /\ dist.out = NoContainer
    /\ (last.op = "createToMean" /\ Len(scores.entries) = 0) =>
            /\ IsTypeError(last.out)
            /\ last.out.err.msg \in AtLeastOne
            /\ mean = NoMean

C19_Witness ==
    /\ last.op = "createToMean"
    /\ scores = Dict(<< >>, << >>)
    /\ weights = Dict(<< >>, << >>)
    /\ last.out = Threw(NO_ELEMENT)
    /\ mean = NoMean


\* C21: when distributeWeights succeeds on a list or dict with an undefined
\* entry, every entry of the output is a finite number >= 0; the output sums
\* to 1 when the defined weights of the input sum to less than 1, and to the
\* sum of the defined weights of the input when that is 1 or more.
C21_OutputSum ==
    (/\ last.op = "distributeWeights"
     /\ dist.ok
     /\ UndefinedCount(ObjectValues(weights)) >= 1) =>
        LET out == ObjectValues(dist.out)
            sum == DefinedSum(ObjectValues(weights))
        IN  /\ Len(out) = Len(weights.entries)
            /\ \A i \in 1..Len(out) : IsWeight(out[i])
            /\ Below(sum, Num(1)) => DefinedSum(out) = Num(1)
            /\ AtMost(Num(1), sum) => DefinedSum(out) = sum

C21_Witness ==
    /\ last.op = "distributeWeights"
    /\ weights.kind = "array"
    /\ ObjectValues(weights) = <<Num(1), Undefined, Frac(1, 4)>>
    /\ dist.ok
    /\ ObjectValues(dist.out) = <<Num(1), Num(0), Frac(1, 4)>>

\* the caller has not changed the list or dict of Scors, nor the weights,
\* since it passed them to createToMean
AsPassed == scores = passed.scores /\ weights = passed.weights
\* the number of Scors passed
Count == Len(passed.scores.entries)
\* what forItem of the i-th Score passed ends in
ScoreOf(i, item) == forItem(heap[passed.scores.entries[i].val], item).out
\* no forItem of a Score passed throws for the item
NoneThrows(item) == \A i \in 1..Count : ScoreOf(i, item).kind = "number"
\* the weight passed for the i-th Score: at its index, or under its key
WeightOf(i) ==
    LET at == IF isArray(passed.scores) THEN {i}
              ELSE {j \in 1..Len(passed.weights.entries) :
                        passed.weights.entries[j].key = passed.scores.entries[i].key}
        in == at \cap (1..Len(passed.weights.entries))
    IN  IF in = {} THEN Undefined
        ELSE passed.weights.entries[CHOOSE j \in in : TRUE].val
\* the sum of the scores, of the weights, and of the weighted scores of the
\* first n Scores passed
RECURSIVE ScoreSum(_, _)
ScoreSum(n, item) ==
    IF n = 0 THEN Num(0) ELSE Add(ScoreSum(n - 1, item), ScoreOf(n, item).val)
RECURSIVE WeightSum(_)
WeightSum(n) == IF n = 0 THEN Num(0) ELSE Add(WeightSum(n - 1), WeightOf(n))
RECURSIVE WeightedSum(_, _)
WeightedSum(n, item) ==
    IF n = 0 THEN Num(0)
    ELSE Add(WeightedSum(n - 1, item), Mul(ScoreOf(n, item).val, WeightOf(n)))

C23_UnitInterval ==
    /\ mean.kind = "closure" =>
            /\ IsFinite(mean.divisor)
            /\ mean.divisor.n > 0
            /\ mean.divisor = IF passed.weights = NoContainer THEN Num(Count)
                              ELSE DefinedSum(mean.weightsList)
    /\ (last.op = "toMean" /\ AsPassed /\ NoneThrows(last.a)) =>
            /\ last.out.kind = "number"
            /\ IsFinite(last.out.val)
            /\ AtMost(Num(0), last.out.val)
            /\ AtMost(last.out.val, Num(1))

C23_Witness ==
    /\ last.op = "toMean"
    /\ AsPassed
    /\ last.a = Num(0)
    /\ scores = List(<<1, 2, 3>>)
    /\ ObjectValues(weights) = <<Num(0), Num(1), Num(1)>>
    /\ mean.divisor = Num(2)
    /\ last.out = Returned(Frac(1, 2 * (MaxNum + 1)))

\* the Scores passed that have no toValue, no numeric min or no numeric max
Unusable ==
    {i \in 1..Count :
        LET s == heap[passed.scores.entries[i].val]
        IN  s.toValue = "undefined" \/ ~IsFinite(s.min) \/ ~IsFinite(s.max)}
\* the errors that forItem and forValue of the library throw themselves
OwnErrors == {INVALID_RANGE, MISSING_TO_VALUE}

\* C24: createToMean fails with a TypeError, returns no function and has
\* invoked no extractor, when a Score has no toValue, no numeric min or no
\* numeric max, each alone being enough; so every Score of a function it
\* returned has all three, and the function never fails with "Invalid range"
\* or "Missing toValue".
C24_Validation ==
    /\ (last.op = "createToMean" /\ Unusable # {}) =>
            /\ IsTypeError(last.out)
            /\ mean = NoMean
            /\ calls = 0
    /\ mean # NoMean => Unusable = {}
    /\ (last.op = "toMean" /\ AsPassed) =>
            ~(last.out.kind = "throw" /\ last.out.err \in OwnErrors)

C24_Witness ==
    /\ last.op = "createToMean"
    /\ Count = 2
    /\ heap[1] = RangedScors[1]
    /\ heap[2].toValue = "toP"
    /\ heap[2].min = Num(0)
    /\ heap[2].max = Undefined
    /\ Unusable = {2}
    /\ last.out = Threw(INVALID_SCORES)
    /\ mean = NoMean

\* the keys of a list or dict
KeysOf(c) == {c.entries[i].key : i \in 1..Len(c.entries)}
\* a list was passed with a dict, or a dict with a list
Mixed == passed.weights.kind # passed.scores.kind
\* two lists of different length
OtherLength ==
    /\ isArray(passed.scores)
    /\ isArray(passed.weights)
    /\ Len(passed.weights.entries) # Count
\* a key of the dict of Scores is not a key of the dict of weights
MissingKey ==
    /\ ~isArray(passed.scores)
    /\ ~isArray(passed.weights)
    /\ KeysOf(passed.scores) \ KeysOf(passed.weights) # {}
\* a key of the dict of weights is not a key of the dict of Scores
ExtraKey ==
    /\ ~isArray(passed.scores)
    /\ ~isArray(passed.weights)
    /\ KeysOf(passed.weights) \ KeysOf(passed.scores) # {}

\* C25: when weights are passed, createToMean fails with a TypeError if they
\* are a list of another length, lack a key of the Scores, have a key that
\* names no Score, or are a list where the Scores are a dict (or a dict where
\* they are a list).
C25_ExactMatch ==
    (/\ last.op = "createToMean"
     /\ passed.weights # NoContainer
     /\ OtherLength \/ MissingKey \/ ExtraKey \/ Mixed) =>
        IsTypeError(last.out)

\* weights were passed that match the Scores: a list of the same length for
\* a list, a dict with the same keys for a dict
Matching ==
    /\ passed.weights # NoContainer
    /\ ~Mixed
    /\ ~OtherLength
    /\ ~MissingKey
    /\ ~ExtraKey
\* a weight passed is not a finite number >= 0 (undefined included), or the
\* weights sum to 0
UnfitWeights ==
    \/ \E i \in 1..Count : ~IsWeight(WeightOf(i))
    \/ WeightSum(Count) = Num(0)

\* C26: with weights that match a non-empty collection of Scores which all
\* have toValue, min and max, createToMean fails with a RangeError and
\* returns no function if a weight is not a finite number, is negative or is
\* undefined, or if the weights sum to 0; otherwise it returns a function.
C26_WeightsRange ==
    (/\ last.op = "createToMean"
     /\ Matching
     /\ Count >= 1
     /\ Unusable = {}) =>
        IF UnfitWeights
            THEN /\ last.out.kind = "throw"
                 /\ last.out.err.class = "RangeError"
                 /\ mean = NoMean
            ELSE /\ last.out = None
                 /\ mean # NoMean

C26_Witness ==
    /\ last.op = "createToMean"
    /\ passed.scores = Dict(<<"a", "b">>, <<1, 2>>)
    /\ passed.weights = Dict(<<"b", "a">>, <<Num(1), Undefined>>)
    /\ Matching
    /\ last.out = Threw(NOT_NUMERIC_WEIGHTS)
    /\ mean = NoMean

\* what the function createToMean returned gives for the item with the list
\* or dict of Scores and the weights as they were passed
AtCreation(item) == toMean(heap, mean, passed.scores, passed.weights, item).out

\* C27: every call of the function createToMean returned ends as the
\* arguments at the time of createToMean define it, also after the caller
\* has added, removed or replaced entries of the list of Scores or changed
\* entries of the weights; and where no extractor throws it returns a number
\* in [0,1].
C27_ArgumentsAtCreation ==
    last.op = "toMean" =>
        /\ last.out = AtCreation(last.a)
        /\ NoneThrows(last.a) =>
               /\ last.out.kind = "number"
               /\ IsFinite(last.out.val)
               /\ AtMost(Num(0), last.out.val)
               /\ AtMost(last.out.val, Num(1))

\* weights are complete: there is one at least, each is a finite number that
\* is not negative, and their sum is positive
Complete(c) ==
    /\ Len(c.entries) > 0
    /\ \A i \in 1..Len(c.entries) : IsWeight(c.entries[i].val)
    /\ DefinedSum(ObjectValues(c)).n > 0

\* C28: the weights a successful distributeWeights returns are complete (all
\* defined, sum above 0); distributeWeights called with them returns them
\* unchanged, and createToMean takes them as the weights of Scors with the
\* same keys without an error.
C28_CompleteOutput ==
    [][/\ (last'.op = "distributeWeights" /\ dist'.ok) => Complete(dist'.out)
       /\ (last.op = "distributeWeights" /\ dist.ok
              /\ last'.op = "distributeWeights") =>
             /\ weights' = dist.out
             /\ dist'.ok
             /\ dist'.same
             /\ dist'.out = dist.out
             /\ last'.out = None
       /\ (last.op = "distributeWeights" /\ dist.ok
              /\ last'.op = "createToMean") =>
             /\ passed'.weights = dist.out
             /\ last'.out = None
             /\ mean' # NoMean]_vars

C28_Witness ==
    /\ last.op = "distributeWeights"
    /\ isArray(weights)
    /\ ObjectValues(weights) = <<Frac(1, 2), Num(0), Frac(1, 2)>>
    /\ dist.ok
    /\ dist.same
    /\ dist.out = weights

\* setMax(setMin(s, a), b) and setMin(setMax(s, b), a)
MinThenMax(s, a, b) ==
    LET m == setMin(s, a)
    IN  IF m.ok THEN setMax(m.obj, b) ELSE m
MaxThenMin(s, a, b) ==
    LET m == setMax(s, b)
    IN  IF m.ok THEN setMin(m.obj, a) ELSE m

\* C29: for finite a <= b, setRange(s, a, b) succeeds whatever the min and
\* max of s are, and its result has the fields of setMax(setMin(s, a), b)
\* and of setMin(setMax(s, b), a) where these do not throw. The first of
\* them throws a RangeError exactly when a > s.max, the second exactly when
\* b < s.min, and one of the two always succeeds.
C29_RangeAtOnce ==
    (last.op = "setRange" /\ IsFinite(last.a) /\ IsFinite(last.b)
         /\ AtMost(last.a, last.b)) =>
        LET s == heap[1]
            a == last.a
            b == last.b
            minFirst == MinThenMax(s, a, b)
            maxFirst == MaxThenMin(s, a, b)
        IN  /\ last.out = Created(2)
            /\ minFirst.ok => Fields(minFirst.obj) = Fields(heap[2])
            /\ maxFirst.ok => Fields(maxFirst.obj) = Fields(heap[2])
            /\ ~minFirst.ok <=> (IsFinite(s.max) /\ Below(s.max, a))
            /\ ~maxFirst.ok <=> (IsFinite(s.min) /\ Below(b, s.min))
            /\ ~minFirst.ok => (~setMin(s, a).ok /\ minFirst.err.class = "RangeError")
            /\ ~maxFirst.ok => (~setMax(s, b).ok /\ maxFirst.err.class = "RangeError")
            /\ minFirst.ok \/ maxFirst.ok

C29_Witness ==
    /\ last.op = "setRange"
    /\ heap[1].min = Num(0)
    /\ heap[1].max = Num(1)
    /\ last.a = Num(MaxNum)
    /\ last.b = Num(MaxNum)
    /\ last.out = Created(2)
    /\ ~setMin(heap[1], last.a).ok
    /\ MaxThenMin(heap[1], last.a, last.b).ok

\* the values toValue gives the items that are numeric
NumericValues(toValue, list) ==
    {Apply(toValue, list[i]).val : i \in {j \in 1..Len(list) : isNumeric(Apply(toValue, list[j]).val)}}

\* C30: on the Scor scorForItems(toValue, items) returned, forItem does not
\* fail for any item of items and returns a number in [0, 1]: when min < max,
\* 0 for the items with the smallest numeric value, 1 for those with the
\* largest and 0 for those whose value is not numeric; when all numeric
\* values are equal, 0 for every item.
C30_ItemsScore ==
    (last.op = "forItem" /\ items # << >>) =>
        LET s == heap[1]
            v == Apply(s.toValue, last.a).val
            V == NumericValues(s.toValue, items)
            r == last.out
        IN  /\ r.kind = "number"
            /\ IsFinite(r.val)
            /\ AtMost(Num(0), r.val)
            /\ AtMost(r.val, Num(1))
            /\ ~isNumeric(v) => r.val = Num(0)
            /\ (isNumeric(v) /\ \A w \in V : AtMost(v, w)) => r.val = Num(0)
            /\ (isNumeric(v) /\ (\A w \in V : AtMost(w, v)) /\ Cardinality(V) > 1) =>
                   r.val = Num(1)
            /\ Cardinality(V) = 1 => r.val = Num(0)
            /\ (isNumeric(v) /\ Cardinality(V) > 1) =>
                   \E lo, hi \in V :
                       /\ \A w \in V : AtMost(lo, w) /\ AtMost(w, hi)
                       /\ IsQuotient(r.val, v, lo, hi)

C30_Witness ==
    /\ last.op = "forItem"
    /\ items = <<Num(0), Undefined, Num(MaxNum)>>
    /\ heap[1].toValue = "toP"
    /\ last.a = Num(MaxNum)
    /\ last.out = Returned(Num(1))
====
